---------------------------- MODULE Spec2Model ----------------------------
(***************************************************************************)
(* Model of the multi-tenant CPU arbitration control plane:                *)
(*   - the Host Agent (src/host_agent/main.go): the command connections    *)
(*     served by processClient, the shared LB weights behind a mutex, and  *)
(*     the HTTP weights endpoint;                                          *)
(*   - the Controller (the Go program carried in                           *)
(*     src/hotelReservation/kubernetes/reccomend/                          *)
(*     recommendation-deployment.yaml, from line 49 on): its persistent    *)
(*     connection per node, its enforcement loops and its rolling window.  *)
(*                                                                         *)
(* Text is modelled by what strings.Split makes of it: a string is the     *)
(* non-empty sequence of its space-separated tokens, and a token is the    *)
(* non-empty sequence of its ':'-separated fields, so "updatePods p1:u1"   *)
(* is << <<"updatePods">>, <<"p1", "u1">> >> and "" is << <<"">> >>.       *)
(***************************************************************************)
EXTENDS Integers, Sequences, FiniteSets, TLC

VARIABLES
    \* ---- Host Agent ----
    pc,               \* position of each command connection's processClient
    podUIDs,          \* processClient's session map podName -> podUID
    msgFromCC,        \* the command read last on the connection
    wire,             \* what was written on the connection for the command read last
    initialCPUUtils,  \* getCPUUtilizations: the samples taken before the sleep
    finalCPUUtils,    \* getCPUUtilizations: the samples taken after the sleep
    cgroupWrites,     \* the cgroup writes the command in progress has performed
    lbWeights,        \* SafeLBWeights.weights, a Go string header (data, len)
    mu,               \* SafeLBWeights.mu: its holder
    hpc,              \* position of each HTTP handler invocation
    currLBWeights,    \* the HTTP handler's local copy of the weights
    body,             \* the response body the HTTP handler wrote last
    lastAck,          \* history: the applyLBWeights command acknowledged last
    startAck,         \* history: the command acknowledged last when the HTTP
                      \* request began, while none has been acknowledged since
    \* ---- one node's connection, as a byte stream ----
    issued,           \* history: the commands the Controller wrote, in order
    toAgent,          \* bytes written by the Controller, not yet read by the Agent
    agentSeen,        \* history: what each read of the Agent returned
    toCC,             \* responses written by the Agent, not yet read
    paired,           \* history: what the Controller took as the reply to each command
    awaiting,         \* the Controller is inside SendMessageAndGetResponse's Read
    \* ---- the Controller ----
    enforcement,      \* ENFORCEMENT, the mode the Controller was built with
    cc,               \* where the main flow of the Controller is
    idx,              \* i of the "for i := range nodes" loop that is sending
    stage,            \* which decision of the round is being made and applied
    round,            \* iterations of the control loop started so far
    roundsAppCPUUtils,   \* the rolling window of per-app utilization snapshots
    arrivals,         \* history: every snapshot ever appended, oldest first
    sampler,          \* per node, the state of the round's sampling goroutine
    cpuUtilizations,  \* per node, the reply the sampling goroutine holds
    nodeCPUUtilizations, \* per node, the reply main has received this round
    link,             \* per node, the command in flight and the Agent's reply
    applying,         \* the payloads being sent node by node, and what follows
    logLines,         \* lines written to the log file
    avgAppUtils,      \* the rolling averages the last decision was made from
    startupSent,      \* history: per node, the commands sent before the loop began
    installed,        \* history: the nodes that answered Success to updatePods
    gurobi,           \* history: how the optimizer call of the round's last decision ended
    applyFailed,      \* history: the nodes that did not answer Success in the apply loop
    \* ---- a function of the Controller called on its own ----
    input,            \* the arguments of the call
    output            \* what the call returned

agentVars == <<pc, podUIDs, msgFromCC, wire, initialCPUUtils,
               finalCPUUtils, cgroupWrites, lbWeights, mu, hpc, currLBWeights, body,
               lastAck, startAck>>

wireVars == <<issued, toAgent, agentSeen, toCC, paired, awaiting>>

ccVars == <<enforcement, cc, idx, stage, round, roundsAppCPUUtils, arrivals,
           sampler, cpuUtilizations, nodeCPUUtilizations, link, applying,
           logLines, avgAppUtils, startupSent, installed, gurobi, applyFailed>>
callVars == <<input, output>>

vars == <<agentVars, wireVars, ccVars, callVars>>

outsideAgent == <<wireVars, ccVars, callVars>>
outsideWire == <<agentVars, ccVars, callVars>>
outsideCC == <<agentVars, wireVars, callVars>>
outsideCall == <<agentVars, wireVars, ccVars>>

(***************************************************************************)
(* Bounds of the model.                                                    *)
(***************************************************************************)
NConn == 2          \* command connections the Agent accepts
NHttp == 1          \* HTTP handler invocations that can be in progress at once
MaxUsage == 2       \* largest cpuacct.usage reading, in ticks
TicksPerMs == 1     \* clock ticks per millisecond
MaxJitter == 1      \* the sleep overshoots by at most this many ticks

Conns == 1..NConn
Https == 1..NHttp

(***************************************************************************)
(* Program constants of the Agent.                                         *)
(***************************************************************************)
CPU_UTILIZATION_INTERVAL_MS == 100
DEFAULT_LB_WEIGHTS == << <<"">> >>

EmptyMap == [x \in {} |-> ""]
NoMsg == <<>>
NoOne == <<>>
NoAck == <<>>

(***************************************************************************)
(* Text helpers.                                                           *)
(***************************************************************************)
RECURSIVE FieldsLen(_)
FieldsLen(tok) ==
    IF tok = <<>> THEN 0
    ELSE Len(Head(tok)) + (IF Len(tok) > 1 THEN 1 ELSE 0) + FieldsLen(Tail(tok))

\* len(s): the bytes of the string, separators included
RECURSIVE StrLen(_)
StrLen(s) ==
    IF s = <<>> THEN 0
    ELSE FieldsLen(Head(s)) + (IF Len(s) > 1 THEN 1 ELSE 0) + StrLen(Tail(s))

\* the text after the command word and its space
Payload(msg) == IF Len(msg) = 1 THEN << <<"">> >> ELSE Tail(msg)

\* strconv.ParseFloat on the numeric texts the model uses, in tenths
ParseFloat(s) ==
    CASE s = "256" -> [ok |-> TRUE, tenths |-> 2560]
      [] s = "512" -> [ok |-> TRUE, tenths |-> 5120]
      [] s = "128.7" -> [ok |-> TRUE, tenths |-> 1287]
      [] s = "-1" -> [ok |-> TRUE, tenths |-> -10]
      [] OTHER -> [ok |-> FALSE, tenths |-> 0]

\* int64(f): truncation toward zero
Int64OfFloat(tenths) ==
    IF tenths >= 0 THEN tenths \div 10 ELSE -((-tenths) \div 10)

Perms(S) ==
    {f \in [1..Cardinality(S) -> S] : \A i, j \in 1..Cardinality(S) : f[i] = f[j] => i = j}


MapGet(m, k) == IF k \in DOMAIN m THEN m[k] ELSE ""
MapPut(m, k, v) == [x \in (DOMAIN m) \cup {k} |-> IF x = k THEN v ELSE m[x]]

(***************************************************************************)
(* Responses of the Agent.  A getCPUUtilizations reply carries its         *)
(* podName:percentage pairs in utils, the percentage as the number "%f"    *)
(* prints, in millionths of a percent.                                     *)
(***************************************************************************)
Reply(t) == [text |-> t, utils |-> <<>>]
Success == Reply("Success")
Failure == Reply("Failure")
\* processClient's last branch: sendMsgToConnection(connection, "Unknown message type")
UnknownAnsweredFailure == Reply("Failure")

UnknownMessageType == Reply("Unknown message type")

(***************************************************************************)
(* The commands a peer may write on a command connection.                  *)
(***************************************************************************)
Cmd(word, pairs) == << <<word>> >> \o pairs

UpdatePodsMsgs ==
    { Cmd("updatePods", <<>>),
      Cmd("updatePods", << <<"p1", "u1">> >>),
      Cmd("updatePods", << <<"p1", "u2">> >>),
      Cmd("updatePods", << <<"p1", "u1">>, <<"p2", "u2">> >>),
      Cmd("updatePods", << <<"p1", "u1">>, <<"p1", "u2">> >>),
      Cmd("updatePods", << <<"p2", "u2">>, <<"p1">> >>),
      Cmd("updatePods", << <<"p1", "u1", "x">> >>) }

LBWeightsMsgs ==
    { Cmd("applyLBWeights", << <<"app1", "100.000000">> >>),
      Cmd("applyLBWeights", << <<"app1", "40.000000|60.000000">> >>) }

SharePayloads ==
    { << <<"p1", "256">> >>,
      << <<"p1", "128.7">>, <<"p2", "512">> >>,
      << <<"p3", "256">> >>,
      << <<"p1", "256">>, <<"p2", "abc">> >>,
      << <<"p1", "256">>, <<"p2">> >> }

QuotaPayloads ==
    { << <<"p1", "-1">> >>,
      << <<"p1", "256">>, <<"p2", "512">> >>,
      << <<"p3", "256">> >>,
      << <<"p1", "256">>, <<"p2", "abc">> >>,
      << <<"p1", "256">>, <<"p2", "512", "x">> >> }

ApplyMsgs ==
    { Cmd("applyCPUShares", p) : p \in SharePayloads }
    \cup { Cmd("applyCPUQuotas", p) : p \in QuotaPayloads }

OtherMsgs == { Cmd("getCPUUtilizations", <<>>), Cmd("ping", <<>>) }

Msgs == UpdatePodsMsgs \cup LBWeightsMsgs \cup ApplyMsgs \cup OtherMsgs

\* what the peer may send when only the weights path is exercised
LBPeerMsgs == LBWeightsMsgs \cup { Cmd("getCPUUtilizations", <<>>) }

(***************************************************************************)
(* processClient's dispatch and the parsers.                               *)
(***************************************************************************)
\* strings.Split(msgFromCC, " ")[0]; a token with a ':' is no command word
msgType(msg) == IF Len(Head(msg)) = 1 THEN Head(msg)[1] ELSE "?"

RECURSIVE getNewPodsFrom(_, _)
getNewPodsFrom(podStrs, acc) ==
    IF podStrs = <<>> THEN [podUIDs |-> acc, ok |-> TRUE]
    ELSE LET podNameToUID == Head(podStrs)
         IN  IF Len(podNameToUID) # 2
             THEN [podUIDs |-> acc, ok |-> FALSE]
             ELSE getNewPodsFrom(Tail(podStrs),
                                 MapPut(acc, podNameToUID[1], podNameToUID[2]))

getNewPods(msg) == getNewPodsFrom(Tail(msg), EmptyMap)

\* processClient: "if ok { podUIDs = newPodUIDs }"
installAlways(old, res) == res.podUIDs
installPods(old, res) == IF res.ok THEN res.podUIDs ELSE old

RECURSIVE parsePodSharesFrom(_, _)
parsePodSharesFrom(podStrs, acc) ==
    IF podStrs = <<>> THEN [podShares |-> acc, ok |-> TRUE]
    ELSE LET podNameToShare == Head(podStrs)
         IN  IF Len(podNameToShare) # 2
             THEN [podShares |-> acc, ok |-> FALSE]
             ELSE LET share == ParseFloat(podNameToShare[2])
                  IN  IF ~share.ok
                      THEN [podShares |-> acc, ok |-> FALSE]
                      ELSE parsePodSharesFrom(Tail(podStrs),
                               MapPut(acc, podNameToShare[1],
                                      Int64OfFloat(share.tenths)))

parsePodShares(msg) == parsePodSharesFrom(Tail(msg), [x \in {} |-> 0])

\* sendSuccessOrFailResponse: the writes it makes on the connection
sendNothingOnFail(ok) == IF ok THEN <<Success>> ELSE <<>>
sendSuccessOrFailResponse(ok) == IF ok THEN <<Success>> ELSE <<Failure>>


(***************************************************************************)
(* getCPUUtilizations.                                                     *)
(***************************************************************************)
\* what "cat .../cpuacct.usage" can yield: a counter value or an error
ReadFail == [err |-> TRUE, value |-> 0]
ReadOutcomes == {[err |-> FALSE, value |-> v] : v \in 0..MaxUsage} \cup {ReadFail}

getPodCPUUtil(outcome) == IF outcome.err THEN -1 ELSE outcome.value

\* n/d rounded to the nearest integer, halves away from zero
RoundDiv(n, d) ==
    IF n >= 0 THEN (2 * n + d) \div (2 * d) ELSE -((2 * (-n) + d) \div (2 * d))

\* Sprintf("%f", float64(final-initial)/float64(timeElapsed)*100),
\* in millionths of a percent
UtilPct(final, initial, timeElapsed) ==
    RoundDiv((final - initial) * 100 * 1000000, timeElapsed)

SleepTicks == CPU_UTILIZATION_INTERVAL_MS * TicksPerMs

(***************************************************************************)
(* SafeLBWeights: a Go string is a two-word header, the data pointer and   *)
(* the length.  A read that is not ordered after a write by the mutex can  *)
(* see the one word of one value and the other word of another.            *)
(***************************************************************************)
Torn == << <<"(torn)">> >>
StringHeader(s) == [data |-> s, len |-> StrLen(s)]
StringAt(w) == IF w.len = StrLen(w.data) THEN w.data ELSE Torn

ConnTask(c) == <<"conn", c>>
HttpTask(h) == <<"http", h>>

\* sync.Mutex.Lock returns only when nobody holds the mutex
LockWithoutMutex == TRUE
CanLock == mu = NoOne

(***************************************************************************)
(* Initial state of the Agent: main has started both listeners.            *)
(***************************************************************************)
InitAgent ==
    /\ pc = [c \in Conns |-> "listen"]
    /\ podUIDs = [c \in Conns |-> EmptyMap]
    /\ msgFromCC = [c \in Conns |-> NoMsg]
    /\ wire = [c \in Conns |-> <<>>]
    /\ initialCPUUtils = [c \in Conns |-> [x \in {} |-> 0]]
    /\ finalCPUUtils = [c \in Conns |-> [x \in {} |-> 0]]
    /\ cgroupWrites = [c \in Conns |-> <<>>]
    /\ lbWeights = StringHeader(DEFAULT_LB_WEIGHTS)
    /\ mu = NoOne
    /\ hpc = [h \in Https |-> "idle"]
    /\ currLBWeights = [h \in Https |-> NoMsg]
    /\ body = [h \in Https |-> [kind |-> "none", text |-> NoMsg]]
    /\ lastAck = NoAck
    /\ startAck = [h \in Https |-> NoAck]

lbVars == <<lbWeights, mu>>
httpVars == <<hpc, currLBWeights, body, startAck>>
sampleVars == <<initialCPUUtils, finalCPUUtils>>

(***************************************************************************)
(* startServerForCC and processClient.                                     *)
(***************************************************************************)
\* server.Accept() and "go processClient(connection, lbWeights)"
Accept(c) ==
    /\ UNCHANGED outsideAgent
    /\ pc[c] = "listen"
    /\ pc' = [pc EXCEPT ![c] = "read"]
    /\ podUIDs' = [podUIDs EXCEPT ![c] = EmptyMap]
    /\ UNCHANGED <<msgFromCC, wire, sampleVars, cgroupWrites, lbVars, httpVars, lastAck>>

\* readMsgFromConnection returns one read of the connection as the command
ReadMsg(c, peerMsgs) ==
    /\ UNCHANGED outsideAgent
    /\ pc[c] = "read"
    /\ \E m \in peerMsgs : msgFromCC' = [msgFromCC EXCEPT ![c] = m]
    /\ pc' = [pc EXCEPT ![c] = "handle"]
    /\ wire' = [wire EXCEPT ![c] = <<>>]
    /\ cgroupWrites' = [cgroupWrites EXCEPT ![c] = <<>>]
    /\ initialCPUUtils' = [initialCPUUtils EXCEPT ![c] = [x \in {} |-> 0]]
    /\ finalCPUUtils' = [finalCPUUtils EXCEPT ![c] = [x \in {} |-> 0]]
    /\ UNCHANGED <<podUIDs, lbVars, httpVars, lastAck>>

\* "if err != nil { ...; break }" and the deferred connection.Close(): where
\* the handlers are after the read of connection c failed
exitOnReadError(p, c) == [d \in DOMAIN p |-> "closed"]

breakOnReadError(p, c) == [p EXCEPT ![c] = "closed"]

\* readMsgFromConnection returns an error: the loop breaks, the connection closes
ReadError(c) ==
    /\ UNCHANGED outsideAgent
    /\ pc[c] = "read"
    /\ pc' = breakOnReadError(pc, c)
    /\ UNCHANGED <<podUIDs, msgFromCC, wire, sampleVars, cgroupWrites, lbVars,
                   httpVars, lastAck>>

\* "podUIDs := make(map[string]string)" is a local of processClient: the
\* assignment "podUIDs = newPodUIDs" reaches the map of connection c only
assignShared(maps, c, new) == [d \in DOMAIN maps |-> new]

assignPodUIDs(maps, c, new) == [maps EXCEPT ![c] = new]

\* msgType == "updatePods"
UpdatePods(c) ==
    /\ UNCHANGED outsideAgent
    /\ pc[c] = "handle"
    /\ msgType(msgFromCC[c]) = "updatePods"
    /\ LET res == getNewPods(msgFromCC[c])
       IN  /\ podUIDs' = assignPodUIDs(podUIDs, c, installPods(podUIDs[c], res))
           /\ wire' = [wire EXCEPT ![c] = @ \o sendSuccessOrFailResponse(res.ok)]
    /\ pc' = [pc EXCEPT ![c] = "read"]
    /\ UNCHANGED <<msgFromCC, sampleVars, cgroupWrites, lbVars, httpVars, lastAck>>


(***************************************************************************)
(* applyCPUShares and applyCPUQuotas: parse the whole payload, then range  *)
(* over the parsed map (in Go's unspecified order), run                    *)
(* "bash ./writetofile.sh <value> <path>" for each entry and return false  *)
(* at the first one that exits with an error.  exitOk is the helper's exit *)
(* status for each entry; the path is built from podUIDs[podName], the     *)
(* empty string for a name the session map does not hold.                  *)
(***************************************************************************)
FirstFailure(order, exitOk) ==
    LET bad == {i \in DOMAIN order : ~exitOk[order[i]]}
    IN  IF bad = {} THEN Len(order) + 1
        ELSE CHOOSE i \in bad : \A j \in bad : i <= j

writeEntries(uids, podShares, file, order, exitOk) ==
    LET stop == FirstFailure(order, exitOk)
    IN  [ok |-> stop = Len(order) + 1,
         writes |-> [i \in 1..(stop - 1) |->
                        [uid |-> MapGet(uids, order[i]),
                         file |-> file,
                         value |-> podShares[order[i]]]]]

\* "podShares, ok := parsePodShares(msg); if !ok { return false }": the
\* entries the loop below the test ranges over
entriesParsedSoFar(parsed) == parsed.podShares
entriesToWrite(parsed) ==
    IF parsed.ok THEN parsed.podShares ELSE [x \in {} |-> 0]

applyTo(c, file) ==
    LET parsed == parsePodShares(msgFromCC[c])
        entries == entriesToWrite(parsed)
    IN  \E order \in Perms(DOMAIN entries) :
        \E exitOk \in [DOMAIN entries -> BOOLEAN] :
           LET done == writeEntries(podUIDs[c], entries, file, order, exitOk)
           IN  /\ cgroupWrites' = [cgroupWrites EXCEPT ![c] = done.writes]
               /\ wire' = [wire EXCEPT ![c] =
                              @ \o sendSuccessOrFailResponse(parsed.ok /\ done.ok)]

\* msgType == "applyCPUShares"
applyCPUShares(c) ==
    /\ UNCHANGED outsideAgent
    /\ pc[c] = "handle"
    /\ msgType(msgFromCC[c]) = "applyCPUShares"
    /\ applyTo(c, "cpu.shares")
    /\ pc' = [pc EXCEPT ![c] = "read"]
    /\ UNCHANGED <<podUIDs, msgFromCC, sampleVars, lbVars, httpVars, lastAck>>

\* msgType == "applyCPUQuotas"
applyCPUQuotas(c) ==
    /\ UNCHANGED outsideAgent
    /\ pc[c] = "handle"
    /\ msgType(msgFromCC[c]) = "applyCPUQuotas"
    /\ applyTo(c, "cpu.cfs_quota_us")
    /\ pc' = [pc EXCEPT ![c] = "read"]
    /\ UNCHANGED <<podUIDs, msgFromCC, sampleVars, lbVars, httpVars, lastAck>>

\* the final else: "Unknown message type"
KnownTypes == {"updatePods", "applyLBWeights", "applyCPUShares",
               "applyCPUQuotas", "getCPUUtilizations"}

UnknownMessage(c) ==
    /\ UNCHANGED outsideAgent
    /\ pc[c] = "handle"
    /\ msgType(msgFromCC[c]) \notin KnownTypes
    /\ wire' = [wire EXCEPT ![c] = Append(@, UnknownMessageType)]
    /\ pc' = [pc EXCEPT ![c] = "read"]
    /\ UNCHANGED <<podUIDs, msgFromCC, sampleVars, cgroupWrites, lbVars,
                   httpVars, lastAck>>

(***************************************************************************)
(* getCPUUtilizations: sample every pod of the session map, sleep on the   *)
(* handler, sample again, reply.  The counter of a cgroup never decreases. *)
(***************************************************************************)
SampleBefore(c) ==
    /\ UNCHANGED outsideAgent
    /\ pc[c] = "handle"
    /\ msgType(msgFromCC[c]) = "getCPUUtilizations"
    /\ \E r0 \in [DOMAIN podUIDs[c] -> ReadOutcomes] :
          initialCPUUtils' = [initialCPUUtils EXCEPT ![c] =
                                 [p \in DOMAIN podUIDs[c] |-> getPodCPUUtil(r0[p])]]
    /\ pc' = [pc EXCEPT ![c] = "sleep"]
    /\ UNCHANGED <<podUIDs, msgFromCC, wire, finalCPUUtils, cgroupWrites, lbVars,
                   httpVars, lastAck>>

utilsReply(pods, initial, final, timeElapsed, order) ==
    [text |-> "utils:",
     utils |-> [i \in 1..Len(order) |->
                   <<order[i],
                     UtilPct(final[order[i]], initial[order[i]], timeElapsed)>>]]

SampleAfter(c) ==
    /\ UNCHANGED outsideAgent
    /\ pc[c] = "sleep"
    /\ \E r1 \in [DOMAIN podUIDs[c] -> ReadOutcomes] :
       \E timeElapsed \in SleepTicks..(SleepTicks + MaxJitter) :
       \E order \in Perms(DOMAIN podUIDs[c]) :
          /\ \A p \in DOMAIN podUIDs[c] :
                (~r1[p].err /\ initialCPUUtils[c][p] # -1)
                    => r1[p].value >= initialCPUUtils[c][p]
          /\ LET final == [p \in DOMAIN podUIDs[c] |-> getPodCPUUtil(r1[p])]
             IN  /\ finalCPUUtils' = [finalCPUUtils EXCEPT ![c] = final]
                 /\ wire' = [wire EXCEPT ![c] =
                                Append(@, utilsReply(DOMAIN podUIDs[c],
                                                     initialCPUUtils[c], final,
                                                     timeElapsed, order))]
    /\ pc' = [pc EXCEPT ![c] = "read"]
    /\ UNCHANGED <<podUIDs, msgFromCC, initialCPUUtils, cgroupWrites, lbVars,
                   httpVars, lastAck>>

(***************************************************************************)
(* updateLBWeights: lock, store the message, unlock; then processClient    *)
(* acknowledges.                                                           *)
(***************************************************************************)
\* "else if msgType == "applyLBWeights"": the commands updateLBWeights is
\* called for
storesWeightsToo(type) == type \in {"applyLBWeights", "applyCPUShares"}

storesWeights(type) == type = "applyLBWeights"

LBLock(c) ==
    /\ UNCHANGED outsideAgent
    /\ pc[c] = "handle"
    /\ storesWeights(msgType(msgFromCC[c]))
    /\ CanLock
    /\ mu' = ConnTask(c)
    /\ pc' = [pc EXCEPT ![c] = "storeData"]
    /\ UNCHANGED <<podUIDs, msgFromCC, wire, sampleVars, cgroupWrites, lbWeights,
                   httpVars, lastAck>>

\* lbWeights.weights = msg
storedWeights(msg) == msg

LBStoreData(c) ==
    /\ UNCHANGED outsideAgent
    /\ pc[c] = "storeData"
    /\ lbWeights' = [lbWeights EXCEPT !.data = storedWeights(msgFromCC[c])]
    /\ pc' = [pc EXCEPT ![c] = "storeLen"]
    /\ UNCHANGED <<podUIDs, msgFromCC, wire, sampleVars, cgroupWrites, mu,
                   httpVars, lastAck>>

LBStoreLen(c) ==
    /\ UNCHANGED outsideAgent
    /\ pc[c] = "storeLen"
    /\ lbWeights' = [lbWeights EXCEPT !.len = StrLen(storedWeights(msgFromCC[c]))]
    /\ pc' = [pc EXCEPT ![c] = "unlock"]
    /\ UNCHANGED <<podUIDs, msgFromCC, wire, sampleVars, cgroupWrites, mu,
                   httpVars, lastAck>>

\* lbWeights.mu.Unlock(), right after the assignment: the holder of the
\* mutex when task has unlocked
keptLocked(task) == task

unlocked(task) == NoOne

LBUnlock(c) ==
    /\ UNCHANGED outsideAgent
    /\ pc[c] = "unlock"
    /\ mu' = unlocked(ConnTask(c))
    /\ pc' = [pc EXCEPT ![c] = "ack"]
    /\ UNCHANGED <<podUIDs, msgFromCC, wire, sampleVars, cgroupWrites, lbWeights,
                   httpVars, lastAck>>

\* sendSuccessOrFailResponse(connection, ok) with updateLBWeights' true
LBAck(c) ==
    /\ UNCHANGED outsideAgent
    /\ pc[c] = "ack"
    /\ wire' = [wire EXCEPT ![c] = @ \o sendSuccessOrFailResponse(TRUE)]
    /\ lastAck' = msgFromCC[c]
    /\ startAck' = [h \in Https |-> NoAck]
    /\ pc' = [pc EXCEPT ![c] = "read"]
    /\ UNCHANGED <<podUIDs, msgFromCC, sampleVars, cgroupWrites, lbVars, hpc,
                   currLBWeights, body>>

(***************************************************************************)
(* listenForReqsFromLB: the handler of every HTTP request.                 *)
(***************************************************************************)
HttpRequest(h) ==
    /\ UNCHANGED outsideAgent
    /\ hpc[h] = "idle"
    /\ hpc' = [hpc EXCEPT ![h] = "lock"]
    /\ startAck' = [startAck EXCEPT ![h] = lastAck]
    /\ body' = [body EXCEPT ![h] = [kind |-> "none", text |-> NoMsg]]
    /\ UNCHANGED <<pc, podUIDs, msgFromCC, wire, sampleVars, cgroupWrites, lbVars,
                   currLBWeights, lastAck>>

HttpLock(h) ==
    /\ UNCHANGED outsideAgent
    /\ hpc[h] = "lock"
    /\ CanLock
    /\ mu' = HttpTask(h)
    /\ hpc' = [hpc EXCEPT ![h] = "load"]
    /\ UNCHANGED <<pc, podUIDs, msgFromCC, wire, sampleVars, cgroupWrites,
                   lbWeights, currLBWeights, body, lastAck, startAck>>

\* currLBWeights := lbWeights.weights
HttpLoad(h) ==
    /\ UNCHANGED outsideAgent
    /\ hpc[h] = "load"
    /\ currLBWeights' = [currLBWeights EXCEPT ![h] = StringAt(lbWeights)]
    /\ hpc' = [hpc EXCEPT ![h] = "unlock"]
    /\ UNCHANGED <<pc, podUIDs, msgFromCC, wire, sampleVars, cgroupWrites, lbVars,
                   body, lastAck, startAck>>

HttpUnlock(h) ==
    /\ UNCHANGED outsideAgent
    /\ hpc[h] = "unlock"
    /\ mu' = NoOne
    /\ hpc' = [hpc EXCEPT ![h] = "body"]
    /\ UNCHANGED <<pc, podUIDs, msgFromCC, wire, sampleVars, cgroupWrites,
                   lbWeights, currLBWeights, body, lastAck, startAck>>

\* io.ReadAll(r.Body) succeeded: fmt.Fprint(w, currLBWeights)
HttpRespond(h) ==
    /\ UNCHANGED outsideAgent
    /\ hpc[h] = "body"
    /\ body' = [body EXCEPT ![h] = [kind |-> "weights", text |-> currLBWeights[h]]]
    /\ hpc' = [hpc EXCEPT ![h] = "idle"]
    /\ UNCHANGED <<pc, podUIDs, msgFromCC, wire, sampleVars, cgroupWrites, lbVars,
                   currLBWeights, lastAck, startAck>>

\* io.ReadAll(r.Body) failed: http.Error(w, "Error reading request body", ...)
HttpBodyError(h) ==
    /\ UNCHANGED outsideAgent
    /\ hpc[h] = "body"
    /\ body' = [body EXCEPT ![h] =
                   [kind |-> "error", text |-> << <<"Error reading request body">> >>]]
    /\ hpc' = [hpc EXCEPT ![h] = "idle"]
    /\ UNCHANGED <<pc, podUIDs, msgFromCC, wire, sampleVars, cgroupWrites, lbVars,
                   currLBWeights, lastAck, startAck>>

(***************************************************************************)
(* The Controller.  Utilization percentages are the numbers the replies    *)
(* print with "%f", in millionths of a percent.                            *)
(***************************************************************************)
ROUNDS_FOR_ROLLING_AVG_OF_CPU_UTILS == 50
OVERHEAD == 5
NOISE == 2
ENFORCEMENT == "LB"

NNodes == 2             \* nodes the cluster has
MaxRounds == 51         \* control-loop iterations explored

Nodes == 1..NNodes
Modes == {"NONE", "LB", "CPU_QUOTA", "CPU_SHARE", "BOTH", "OTHER"}

\* k8sClient.GetNodes(): the pods of each node and their cgroup paths
NodePods ==
    << <<"app1-0", "app3-0">>, <<"app1-1", "app2-0">>, <<"app2-1">> >>

CGroupFilePath(pod) == "pod-" \o pod

\* the capture of ^(.+)-\d+$, or the whole name when it does not match
AppNameOf(podName) ==
    CASE podName \in {"app1-0", "app1-1"} -> "app1"
      [] podName \in {"app2-0", "app2-1"} -> "app2"
      [] podName = "app3-0" -> "app3"
      [] OTHER -> podName

NoReply == [text |-> "", utils |-> <<>>]
\* SendMessageAndGetResponse has written and its Read has not returned
Unanswered == [unanswered |-> TRUE]
\* no optimizer has been called yet
NoOptimizerCall == [outcome |-> "none", status |-> 0, stage |-> ""]
NoApply == [kind |-> "", nil |-> TRUE, payloads |-> <<>>, then |-> ""]

\* what the Agents measure in a round: fixed by the round and the pod, so
\* that every snapshot can be told from its neighbours
UtilTable == <<0, 1500000, 3000000, 10000000>>
UtilOfRound(r, k) == UtilTable[((r + k) % Len(UtilTable)) + 1]

UtilsOf(r, n) ==
    [text |-> "utils:",
     utils |-> [i \in 1..Len(NodePods[n]) |->
                   <<NodePods[n][i], UtilOfRound(r, n + i)>>]]

\* replies that are not "utils:" followed by podName:percentage pairs: the
\* empty string a failed Read leaves, a reply cut after a pod's name, a
\* reply cut after the colon.  rest holds the tokens after the pairs, each
\* the sequence of its ':'-separated fields.
MalformedReplies(n) ==
    { Reply(""),
      [text |-> "utils:", utils |-> <<>>, rest |-> << <<NodePods[n][1]>> >>],
      [text |-> "utils:", utils |-> <<>>, rest |-> << <<NodePods[n][1], "">> >>] }

restOf(reply) == IF "rest" \in DOMAIN reply THEN reply.rest ELSE <<>>

\* getPerAppUtilizations on one reply: util[1] of a token without ':' is out
\* of range, and check(err) panics on a percentage ParseFloat rejects
replyParsePanics(reply) ==
    \E i \in DOMAIN restOf(reply) :
        \/ Len(restOf(reply)[i]) < 2
        \/ ~ParseFloat(restOf(reply)[i][2]).ok

parsePanics(replies) == \E n \in DOMAIN replies : replyParsePanics(replies[n])

\* the log formatters on one reply: podUtilMap[1] of every token of the
\* reply, the first included; "" splits into one token of one field
replyLogPanics(reply) ==
    \/ reply.text = ""
    \/ \E i \in DOMAIN restOf(reply) : Len(restOf(reply)[i]) < 2

logPanics(replies) == \E n \in DOMAIN replies : replyLogPanics(replies[n])

NumGet(m, k) == IF k \in DOMAIN m THEN m[k] ELSE 0

RECURSIVE addPodUtils(_, _)
addPodUtils(appUtils, pairs) ==
    IF pairs = <<>> THEN appUtils
    ELSE LET appName == AppNameOf(Head(pairs)[1])
             podUtil == Head(pairs)[2]
         IN  addPodUtils(MapPut(appUtils, appName, NumGet(appUtils, appName) + podUtil),
                         Tail(pairs))

RECURSIVE getPerAppUtilizationsFrom(_, _)
getPerAppUtilizationsFrom(appUtils, replies) ==
    IF replies = <<>> THEN appUtils
    ELSE getPerAppUtilizationsFrom(addPodUtils(appUtils, Head(replies).utils),
                                   Tail(replies))

getPerAppUtilizations(replies) ==
    getPerAppUtilizationsFrom([a \in {} |-> 0], replies)

\* "if util < noise { appUtils[appNum] = 0 }"
keepNoise(appUtils, noise) == appUtils

makeNoiseZero(appUtils, noise) ==
    [a \in DOMAIN appUtils |-> IF appUtils[a] < noise * 1000000 THEN 0 ELSE appUtils[a]]

addOverhead(appUtils, overhead) ==
    [a \in DOMAIN appUtils |->
        IF a = "app3" THEN appUtils[a] + overhead * 1000000
        ELSE appUtils[a] + overhead * 2 * 1000000]

\* getRollingAverage, "update rounds": newRoundsAppCPUUtils[1:] when the
\* appended window is longer than the constant
dropNewest(rounds) ==
    IF Len(rounds) > ROUNDS_FOR_ROLLING_AVG_OF_CPU_UTILS
    THEN SubSeq(rounds, 1, Len(rounds) - 1) ELSE rounds

trimRounds(rounds) ==
    IF Len(rounds) > ROUNDS_FOR_ROLLING_AVG_OF_CPU_UTILS THEN Tail(rounds) ELSE rounds

RECURSIVE sumOver(_, _)
sumOver(rounds, appNum) ==
    IF rounds = <<>> THEN 0
    ELSE NumGet(Head(rounds), appNum) + sumOver(Tail(rounds), appNum)

\* the average of an app is the exact quotient sum / n
\* "avgAppUtils[appNum] /= float64(len(newRoundsAppCPUUtils))": what an
\* app's sum is divided by
snapshotsHolding(rounds, appNum) ==
    Cardinality({k \in DOMAIN rounds : appNum \in DOMAIN rounds[k]})

divisor(rounds, appNum) == Len(rounds)

getRollingAverage(currentAppUtils, rounds) ==
    LET newRoundsAppCPUUtils == trimRounds(Append(rounds, currentAppUtils))
        apps == UNION {DOMAIN newRoundsAppCPUUtils[k] : k \in DOMAIN newRoundsAppCPUUtils}
    IN  [avgAppUtils |-> [a \in apps |->
                             [sum |-> sumOver(newRoundsAppCPUUtils, a),
                              n |-> divisor(newRoundsAppCPUUtils, a)]],
         newRoundsAppCPUUtils |-> newRoundsAppCPUUtils]

\* the snapshot a decision appends: LB weights use the utilizations as they
\* are, quotas and shares zero the noise and add the overhead
effectiveAppUtils(kind, replies) ==
    IF kind = "LB" THEN getPerAppUtilizations(replies)
    ELSE addOverhead(makeNoiseZero(getPerAppUtilizations(replies), NOISE), OVERHEAD)

getDefaultCPUShares ==
    << << <<"app1-node1", "256">>, <<"app3-node1", "256">> >>,
       << <<"app1-node2", "256">>, <<"app2-node2", "256">> >>,
       << <<"app2-node3", "512">> >> >>

getDefaultCPUQuotas ==
    << << <<"app1-node1", "-1">>, <<"app3-node1", "-1">> >>,
       << <<"app1-node2", "-1">>, <<"app2-node2", "-1">> >>,
       << <<"app2-node3", "-1">> >> >>

\* weights a successful call of the generic optimizer can lead to; every
\* one of them is possible in every round
LBDecisions ==
    { << <<"app1", "100.000000">>, <<"">> >>,
      << <<"app1", "50.000000|50.000000">>, <<"app2", "100.000000">>, <<"">> >> }

CCBegin(mode) ==
    /\ enforcement = mode
    /\ cc = "updatePods"
    /\ idx = 1
    /\ stage = ""
    /\ round = 0
    /\ roundsAppCPUUtils = <<>>
    /\ arrivals = <<>>
    /\ sampler = [n \in Nodes |-> "none"]
    /\ cpuUtilizations = [n \in Nodes |-> NoReply]
    /\ nodeCPUUtilizations = [n \in Nodes |-> NoReply]
    /\ link = [n \in Nodes |-> [cmd |-> NoMsg, resp |-> Unanswered]]
    /\ applying = NoApply
    /\ logLines = 0
    /\ avgAppUtils = [a \in {} |-> [sum |-> 0, n |-> 0]]
    /\ startupSent = [n \in Nodes |-> <<>>]
    /\ installed = {}
    /\ gurobi = NoOptimizerCall
    /\ applyFailed = {}

CCQuiet == CCBegin(ENFORCEMENT)

NotCalled == [called |-> FALSE]
NoCall ==
    /\ input = NotCalled
    /\ output = NotCalled

(***************************************************************************)
(* The Controller's steps.  SendMessageAndGetResponse is a write followed  *)
(* by a read that waits for the Agent's reply; here every command fits one *)
(* read of the Agent and every reply one read of the Controller.           *)
(***************************************************************************)
Send(n, msg) == [link EXCEPT ![n] = [cmd |-> msg, resp |-> Unanswered]]
Replied(n) == link[n].cmd # NoMsg /\ link[n].resp # Unanswered
\* SendMessageAndGetResponse returns: the reply has been read
leftUnread(n) == link

Taken(n) == [link EXCEPT ![n] = [cmd |-> NoMsg, resp |-> Unanswered]]

updatePodsMsg(n) ==
    Cmd("updatePods",
        [i \in 1..Len(NodePods[n]) |-> <<NodePods[n][i], CGroupFilePath(NodePods[n][i])>>])

\* the Agent of node n answers the command in flight
AgentReplies(n) ==
    /\ UNCHANGED outsideCC
    /\ UNCHANGED <<gurobi, applyFailed>>
    /\ link[n].cmd # NoMsg
    /\ link[n].resp = Unanswered
    /\ \E r \in (IF msgType(link[n].cmd) = "getCPUUtilizations"
                 THEN {UtilsOf(round, n)} \cup MalformedReplies(n)
                 ELSE {Success, Failure}) :
          link' = [link EXCEPT ![n].resp = r]
    /\ UNCHANGED <<enforcement, cc, idx, stage, round, roundsAppCPUUtils, arrivals,
                   sampler, cpuUtilizations, nodeCPUUtilizations, applying, logLines, avgAppUtils, startupSent, installed>>

\* main: "Send messages to host agents to update pod state"
UpdatePodsSend ==
    /\ UNCHANGED outsideCC
    /\ UNCHANGED <<gurobi, applyFailed>>
    /\ cc = "updatePods"
    /\ link' = Send(idx, updatePodsMsg(idx))
    /\ cc' = "updatePodsWait"
    /\ startupSent' = [startupSent EXCEPT ![idx] = Append(@, updatePodsMsg(idx))]
    /\ UNCHANGED <<enforcement, idx, stage, round, roundsAppCPUUtils, arrivals,
                   sampler, cpuUtilizations, nodeCPUUtilizations, applying, logLines, avgAppUtils, installed>>

\* "if response != "Success" { panic(...) }"
abortNever(response) == FALSE

abortOn(response) == response # Success

UpdatePodsRecv ==
    /\ UNCHANGED outsideCC
    /\ UNCHANGED <<gurobi, applyFailed>>
    /\ cc = "updatePodsWait"
    /\ Replied(idx)
    /\ link' = Taken(idx)
    /\ installed' = IF link[idx].resp = Success THEN installed \cup {idx} ELSE installed
    /\ IF abortOn(link[idx].resp)
       THEN cc' = "panic" /\ idx' = idx
       ELSE IF idx < NNodes
            THEN cc' = "updatePods" /\ idx' = idx + 1
            ELSE cc' = "setDefaultLBWeights" /\ idx' = 1
    /\ UNCHANGED <<enforcement, stage, round, roundsAppCPUUtils, arrivals,
                   sampler, cpuUtilizations, nodeCPUUtilizations, applying, logLines, avgAppUtils, startupSent>>

\* the position main goes to when the payloads of a stage have been sent or
\* the decision was nil
AfterStage(st) ==
    CASE st = "setDefaultLBWeights" ->
            IF enforcement \in {"NONE", "LB"} THEN "roundStart" ELSE "setDefaultCPUQuotas"
      [] st = "setDefaultCPUQuotas" -> "setDefaultCPUShares"
      [] st = "setDefaultCPUShares" ->
            IF enforcement \in {"CPU_QUOTA", "CPU_SHARE", "BOTH"}
            THEN "roundStart" ELSE "panic"
      [] st = "CPU_QUOTA" /\ enforcement = "BOTH" -> "decide"
      [] OTHER -> "roundStart"

NextStageOf(st) == IF st = "CPU_QUOTA" /\ enforcement = "BOTH" THEN "CPU_SHARE" ELSE ""

\* "if x == nil { warn } else { for i := range nodes { send } }"
Begin(st, kind, nil, payloads) ==
    IF nil
    THEN /\ cc' = AfterStage(st)
         /\ stage' = NextStageOf(st)
         /\ applying' = NoApply
    ELSE /\ cc' = "applySend"
         /\ stage' = st
         /\ applying' = [kind |-> kind, nil |-> FALSE, payloads |-> payloads,
                         then |-> AfterStage(st)]

SameForAll(text) == [n \in Nodes |-> text]

setDefaultLBWeights ==
    /\ UNCHANGED outsideCC
    /\ UNCHANGED <<gurobi, applyFailed>>
    /\ cc = "setDefaultLBWeights"
    /\ Begin("setDefaultLBWeights", "applyLBWeights",
             DEFAULT_LB_WEIGHTS = << <<"">> >>, SameForAll(DEFAULT_LB_WEIGHTS))
    /\ idx' = 1
    /\ UNCHANGED <<enforcement, round, roundsAppCPUUtils, arrivals, sampler,
                   cpuUtilizations, nodeCPUUtilizations, link, logLines, avgAppUtils, startupSent, installed>>

setDefaultCPUQuotas ==
    /\ UNCHANGED outsideCC
    /\ UNCHANGED <<gurobi, applyFailed>>
    /\ cc = "setDefaultCPUQuotas"
    /\ Begin("setDefaultCPUQuotas", "applyCPUQuotas", FALSE, getDefaultCPUQuotas)
    /\ idx' = 1
    /\ UNCHANGED <<enforcement, round, roundsAppCPUUtils, arrivals, sampler,
                   cpuUtilizations, nodeCPUUtilizations, link, logLines, avgAppUtils, startupSent, installed>>

setDefaultCPUShares ==
    /\ UNCHANGED outsideCC
    /\ UNCHANGED <<gurobi, applyFailed>>
    /\ cc = "setDefaultCPUShares"
    /\ Begin("setDefaultCPUShares", "applyCPUShares", FALSE, getDefaultCPUShares)
    /\ idx' = 1
    /\ UNCHANGED <<enforcement, round, roundsAppCPUUtils, arrivals, sampler,
                   cpuUtilizations, nodeCPUUtilizations, link, logLines, avgAppUtils, startupSent, installed>>

\* "msg := kind + payloads[i]; response := nodes[i].SendMessageAndGetResponse(msg)"
ApplySend ==
    /\ UNCHANGED outsideCC
    /\ UNCHANGED <<gurobi, applyFailed>>
    /\ cc = "applySend"
    /\ IF idx \in DOMAIN applying.payloads
       THEN /\ link' = Send(idx, Cmd(applying.kind, applying.payloads[idx]))
            /\ cc' = "applyWait"
            /\ startupSent' =
                  IF round = 0
                  THEN [startupSent EXCEPT
                           ![idx] = Append(@, Cmd(applying.kind, applying.payloads[idx]))]
                  ELSE startupSent
       ELSE /\ cc' = "panic"        \* index out of range
            /\ link' = link
            /\ startupSent' = startupSent
    /\ UNCHANGED <<enforcement, idx, stage, round, roundsAppCPUUtils, arrivals,
                   sampler, cpuUtilizations, nodeCPUUtilizations, applying, logLines, avgAppUtils, installed>>

\* "if response != "Success" { slog.Warn(...) }": whether the response ends
\* the apply loop
stopsOnFailure(response) == response # Success

stopsApplying(response) == FALSE

\* a response other than Success is logged and the loop goes on
ApplyRecv ==
    /\ UNCHANGED outsideCC
    /\ UNCHANGED gurobi
    /\ cc = "applyWait"
    /\ Replied(idx)
    /\ link' = Taken(idx)
    /\ applyFailed' = (IF idx = 1 THEN {} ELSE applyFailed)
                          \cup (IF link[idx].resp # Success THEN {idx} ELSE {})
    /\ IF idx < NNodes /\ ~stopsApplying(link[idx].resp)
       THEN /\ idx' = idx + 1
            /\ cc' = "applySend"
            /\ UNCHANGED <<stage, applying>>
       ELSE /\ idx' = 1
            /\ cc' = applying.then
            /\ stage' = NextStageOf(stage)
            /\ applying' = NoApply
    /\ UNCHANGED <<enforcement, round, roundsAppCPUUtils, arrivals, sampler,
                   cpuUtilizations, nodeCPUUtilizations, logLines, avgAppUtils, startupSent, installed>>

\* the head of the loop: one goroutine per node, then main receives
StartRound ==
    /\ UNCHANGED outsideCC
    /\ gurobi' = NoOptimizerCall
    /\ applyFailed' = {}
    /\ cc = "roundStart"
    /\ round < MaxRounds
    /\ round' = round + 1
    /\ sampler' = [n \in Nodes |-> "spawned"]
    /\ cpuUtilizations' = [n \in Nodes |-> NoReply]
    /\ nodeCPUUtilizations' = [n \in Nodes |-> NoReply]
    /\ cc' = "gather"
    /\ UNCHANGED <<enforcement, idx, stage, roundsAppCPUUtils, arrivals, link,
                   applying, logLines, avgAppUtils, startupSent, installed>>

SamplerSend(n) ==
    /\ UNCHANGED outsideCC
    /\ UNCHANGED <<gurobi, applyFailed>>
    /\ sampler[n] = "spawned"
    /\ link' = Send(n, Cmd("getCPUUtilizations", <<>>))
    /\ sampler' = [sampler EXCEPT ![n] = "sent"]
    /\ UNCHANGED <<enforcement, cc, idx, stage, round, roundsAppCPUUtils, arrivals,
                   cpuUtilizations, nodeCPUUtilizations, applying, logLines, avgAppUtils, startupSent, installed>>

\* SendMessageAndGetResponse: "if err != nil { slog.Warn(...) }" and then
\* "return string(buffer[:mLen])": whether the call returns to the goroutine
\* that made it, for a read that yielded response ("" when the read failed)
returnsOnlyData(response) == response # Reply("")

readReturns(response) == TRUE

SamplerRecv(n) ==
    /\ UNCHANGED outsideCC
    /\ UNCHANGED <<gurobi, applyFailed>>
    /\ sampler[n] = "sent"
    /\ Replied(n)
    /\ cpuUtilizations' = [cpuUtilizations EXCEPT ![n] = link[n].resp]
    /\ link' = Taken(n)
    /\ sampler' = [sampler EXCEPT ![n] =
                      IF readReturns(link[n].resp) THEN "ready" ELSE "lost"]
    /\ UNCHANGED <<enforcement, cc, idx, stage, round, roundsAppCPUUtils, arrivals,
                   nodeCPUUtilizations, applying, logLines, avgAppUtils, startupSent, installed>>

FirstStage ==
    CASE enforcement = "NONE" -> ""
      [] enforcement = "BOTH" -> "CPU_QUOTA"
      [] OTHER -> enforcement

\* "for range nodes { cpuUtil := <-cpuUtilizationCh ... }": the receive
\* from node n is the last of the loop when every other node's is done
firstReceive(s, n) == TRUE

lastReceive(s, n) == \A m \in Nodes \ {n} : s[m] = "done"

\* "cpuUtilizationCh <- CPUUtil{i, cpuUtilizations}" meets "<-cpuUtilizationCh"
Handover(n) ==
    /\ UNCHANGED outsideCC
    /\ UNCHANGED <<gurobi, applyFailed>>
    /\ cc = "gather"
    /\ sampler[n] = "ready"
    /\ nodeCPUUtilizations' = [nodeCPUUtilizations EXCEPT ![n] = cpuUtilizations[n]]
    /\ sampler' = [sampler EXCEPT ![n] = "done"]
    /\ IF lastReceive(sampler, n)
       THEN cc' = "decide" /\ stage' = FirstStage
       ELSE UNCHANGED <<cc, stage>>
    /\ UNCHANGED <<enforcement, idx, round, roundsAppCPUUtils, arrivals,
                   cpuUtilizations, link, applying, logLines, avgAppUtils, startupSent, installed>>

Replies == [n \in Nodes |-> nodeCPUUtilizations[n]]

\* ccWithNoEnforcement: the round is logged and nothing else; the formatter
\* panics on a reply it cannot split
LogOnly ==
    /\ UNCHANGED outsideCC
    /\ UNCHANGED <<gurobi, applyFailed>>
    /\ cc = "decide"
    /\ stage = ""
    /\ IF logPanics(Replies)
       THEN cc' = "panic" /\ logLines' = logLines
       ELSE cc' = "roundStart" /\ logLines' = logLines + 1
    /\ UNCHANGED <<enforcement, idx, stage, round, roundsAppCPUUtils, arrivals,
                   sampler, cpuUtilizations, nodeCPUUtilizations, link, applying,
                   avgAppUtils, startupSent, installed>>

(***************************************************************************)
(* One node's persistent connection as the two byte streams it is.  The    *)
(* Controller's SendMessageAndGetResponse writes the whole command and     *)
(* then does one Read of up to 4096 bytes; the Agent's                     *)
(* readMsgFromConnection does one Read of up to 4096 bytes and             *)
(* processClient answers it with one response.  A stream is the sequence   *)
(* of its unread segments: [cmd, from, to] are bytes from..to of command   *)
(* number cmd.  Every write arrives whole and at once, the most favourable *)
(* delivery TCP can give.                                                  *)
(***************************************************************************)
ReadBufferSize == 4096
MaxCmds == 3            \* commands the Controller issues on the connection
ShortLen == 18          \* len("getCPUUtilizations")
CmdLens == {ShortLen, ReadBufferSize, ReadBufferSize + 1}

WireQuiet ==
    /\ issued = <<>>
    /\ toAgent = <<>>
    /\ agentSeen = <<>>
    /\ toCC = <<>>
    /\ paired = <<>>
    /\ awaiting = FALSE

SegLen(seg) == seg.to - seg.from + 1

\* the first n bytes of a stream, and the stream without them
RECURSIVE TakeBytes(_, _)
TakeBytes(stream, n) ==
    IF stream = <<>> \/ n = 0 THEN <<>>
    ELSE LET seg == Head(stream)
         IN  IF SegLen(seg) <= n
             THEN <<seg>> \o TakeBytes(Tail(stream), n - SegLen(seg))
             ELSE << [seg EXCEPT !.to = seg.from + n - 1] >>

RECURSIVE DropBytes(_, _)
DropBytes(stream, n) ==
    IF stream = <<>> \/ n = 0 THEN stream
    ELSE LET seg == Head(stream)
         IN  IF SegLen(seg) <= n
             THEN DropBytes(Tail(stream), n - SegLen(seg))
             ELSE << [seg EXCEPT !.from = seg.from + n] >> \o Tail(stream)

\* connection.Read(buffer) with a ReadBufferSize buffer
readMsgFromConnection(stream) == TakeBytes(stream, ReadBufferSize)

RECURSIVE BytesOf(_)
BytesOf(stream) ==
    IF stream = <<>> THEN 0 ELSE SegLen(Head(stream)) + BytesOf(Tail(stream))

\* SendMessageAndGetResponse: (*n.connection).Write([]byte(msg))
CCWrite ==
    /\ UNCHANGED outsideWire
    /\ ~awaiting
    /\ Len(issued) < MaxCmds
    /\ \E len \in CmdLens :
          /\ issued' = Append(issued, [len |-> len])
          /\ toAgent' = Append(toAgent,
                               [cmd |-> Len(issued) + 1, from |-> 1, to |-> len])
    /\ awaiting' = TRUE
    /\ UNCHANGED <<agentSeen, toCC, paired>>

\* processClient: one read is one command, answered with one response
AgentRead ==
    /\ UNCHANGED outsideWire
    /\ toAgent # <<>>
    /\ LET msg == readMsgFromConnection(toAgent)
       IN  /\ agentSeen' = Append(agentSeen, msg)
           /\ toAgent' = DropBytes(toAgent, BytesOf(msg))
           /\ toCC' = Append(toCC, [answers |-> Len(agentSeen) + 1])
    /\ UNCHANGED <<issued, paired, awaiting>>

\* SendMessageAndGetResponse: (*n.connection).Read(buffer) returns whatever
\* responses have arrived (responses are short: all of them fit the buffer)
CCRead ==
    /\ UNCHANGED outsideWire
    /\ awaiting
    /\ toCC # <<>>
    /\ paired' = Append(paired, toCC)
    /\ toCC' = <<>>
    /\ awaiting' = FALSE
    /\ UNCHANGED <<issued, toAgent, agentSeen>>

Init ==
    /\ InitAgent
    /\ WireQuiet
    /\ CCQuiet
    /\ NoCall

NextWire ==
    \/ CCWrite
    \/ AgentRead
    \/ CCRead

SpecWire == Init /\ [][NextWire]_vars

(***************************************************************************)
(* The decision adapter.  A float the Controller prints with "%f" is       *)
(* modelled by the number printed, in millionths; FormatF is its text.     *)
(***************************************************************************)
MaxAlloc == 2           \* largest allocation in an optimizer response

Allocs == 0..MaxAlloc

ZeroPad(frac) ==
    CASE frac < 10 -> "00000"
      [] frac < 100 -> "0000"
      [] frac < 1000 -> "000"
      [] frac < 10000 -> "00"
      [] frac < 100000 -> "0"
      [] OTHER -> ""

\* fmt.Sprintf("%f", x) of a non-negative x
FormatF(micro) ==
    ToString(micro \div 1000000) \o "." \o ZeroPad(micro % 1000000)
        \o ToString(micro % 1000000)

\* the pod keys an optimizer result may hold, in the order of sort.Strings
PodKeys == <<"app1-0", "app1-1", "app1-2">>

RECURSIVE valuesInKeyOrder(_, _)
valuesInKeyOrder(m, keys) ==
    IF keys = <<>> THEN <<>>
    ELSE (IF Head(keys) \in DOMAIN m THEN <<m[Head(keys)]>> ELSE <<>>)
         \o valuesInKeyOrder(m, Tail(keys))

getValuesFromMapSortedByKeys(m) == valuesInKeyOrder(m, PodKeys)

RECURSIVE SeqSum(_)
SeqSum(values) == IF values = <<>> THEN 0 ELSE Head(values) + SeqSum(Tail(values))

\* parseGurobiResponse: the weight of one replica, as printed
unscaledWeight(value, appSum, k) ==
    IF appSum = 0 THEN RoundDiv(1000000, k) ELSE RoundDiv(value * 1000000, appSum)

sortedWeight(value, appSum, k) ==
    IF appSum = 0 THEN RoundDiv(100 * 1000000, k)
    ELSE RoundDiv(value * 100 * 1000000, appSum)

strSortedWeights(podResult) ==
    LET sortedValues == getValuesFromMapSortedByKeys(podResult)
        appSum == SeqSum(sortedValues)
    IN  [i \in 1..Len(sortedValues) |->
            sortedWeight(sortedValues[i], appSum, Len(sortedValues))]

\* strings.Join(strSortedWeights, "|")
RECURSIVE JoinBar(_)
JoinBar(weights) ==
    IF weights = <<>> THEN ""
    ELSE IF Len(weights) = 1 THEN FormatF(Head(weights))
    ELSE FormatF(Head(weights)) \o "|" \o JoinBar(Tail(weights))

\* parseGurobiResponse: "for appName, podResult := range response.Result"
\* visits the apps in the order the map iteration happens to take; every
\* app adds "appName:w|w|w " and the string ends with that space
parseGurobiResponse(result, order) ==
    [i \in 1..Len(order) |-> <<order[i], JoinBar(strSortedWeights(result[order[i]]))>>]
        \o << <<"">> >>

\* the optimizer results the calls are made on: app1 with one to three
\* replicas, and app2 with one replica or absent
PodResults ==
    UNION { [keys -> Allocs] :
              keys \in (SUBSET {PodKeys[i] : i \in DOMAIN PodKeys}) \ {{}} }

GurobiResults ==
    { [a \in {"app1"} |-> r] : r \in PodResults }
    \cup { [a \in {"app1", "app2"} |-> IF a = "app1" THEN r ELSE [key \in {"app1-0"} |-> v]] :
             r \in PodResults, v \in {0, 1} }

InitWeights ==
    /\ InitAgent
    /\ WireQuiet
    /\ CCQuiet
    /\ input \in { [called |-> FALSE, result |-> g] : g \in GurobiResults }
    /\ output = NotCalled

CallParseGurobiResponse ==
    /\ UNCHANGED outsideCall
    /\ ~output.called
    /\ \E order \in Perms(DOMAIN input.result) :
          output' = [called |-> TRUE,
                     lbWeights |-> parseGurobiResponse(input.result, order),
                     printed |-> [a \in DOMAIN input.result |->
                                     strSortedWeights(input.result[a])]]
    /\ UNCHANGED input

\* the same response parsed once more, as a later round does when the
\* optimizer answers the same
ParseGurobiResponseAgain ==
    /\ UNCHANGED outsideCall
    /\ output.called
    /\ \E order \in Perms(DOMAIN input.result) :
          output' = [output EXCEPT
                        !.lbWeights = parseGurobiResponse(input.result, order)]
    /\ UNCHANGED input

NextWeights ==
    \/ CallParseGurobiResponse
    \/ ParseGurobiResponseAgain

SpecWeights == InitWeights /\ [][NextWeights]_vars

(***************************************************************************)
(* The legacy adapter: shares and quotas from the five cells of a          *)
(* GurobiResponse.                                                         *)
(***************************************************************************)
CFS_PERIOD_US == 100000
CPUS_IN_NODE == 2
MINIMUM_CPU_QUOTA == 1000
POD_QUOTA_OVERHEAD == 10

LegacyResponses ==
    [status : {2, 3}, t00 : Allocs, t01 : Allocs, t11 : Allocs, t12 : Allocs,
     t20 : Allocs]

\* num / den of non-negative numbers as "%f" prints it, in millionths
MicroQuotient(num, den) ==
    (num \div den) * 1000000 + RoundDiv((num % den) * 1000000, den)

\* (appShare*512)/nodeSum in float64: 0/0 is NaN
shareOf1024(appShare, nodeSum) ==
    IF nodeSum = 0 THEN [nan |-> TRUE, micro |-> 0]
    ELSE [nan |-> FALSE, micro |-> MicroQuotient(appShare * 1024, nodeSum)]

nodeShare(appShare, nodeSum) ==
    IF nodeSum = 0 THEN [nan |-> TRUE, micro |-> 0]
    ELSE [nan |-> FALSE, micro |-> MicroQuotient(appShare * 512, nodeSum)]

shareText(share) == IF share.nan THEN "NaN" ELSE FormatF(share.micro)

\* the numbers getNodeCPUShares prints, node by node
sharesOf(response) ==
    << << nodeShare(response.t00, response.t00 + response.t20),
          nodeShare(response.t20, response.t00 + response.t20) >>,
       << nodeShare(response.t01, response.t01 + response.t11),
          nodeShare(response.t11, response.t01 + response.t11) >>,
       << nodeShare(response.t12, response.t12) >> >>

LegacyPodNames ==
    << <<"app1-node1", "app3-node1">>, <<"app1-node2", "app2-node2">>,
       <<"app2-node3">> >>

\* "if response.Status != 2 { warn; return nil }"
sharesWhateverStatus(response) ==
    [nil |-> FALSE,
     payloads |-> [n \in 1..3 |->
                     [i \in 1..Len(LegacyPodNames[n]) |->
                         <<LegacyPodNames[n][i], shareText(sharesOf(response)[n][i])>>]]]

getNodeCPUShares(response) ==
    IF response.status # 2
    THEN [nil |-> TRUE, payloads |-> <<>>]
    ELSE [nil |-> FALSE,
          payloads |-> [n \in 1..3 |->
                          [i \in 1..Len(LegacyPodNames[n]) |->
                              <<LegacyPodNames[n][i], shareText(sharesOf(response)[n][i])>>]]]

\* int64(x) of a float64: truncation, and for NaN (0/0) the value the
\* build's conversion instruction gives, the most negative int64 ("integer
\* indefinite") on amd64 and 0 on arm64
NaNAsInt64 == {"indefinite", "zero"}

int64OfQuotient(num, den, nanAs) ==
    IF den = 0 THEN [indefinite |-> nanAs = "indefinite", v |-> 0]
    ELSE [indefinite |-> FALSE, v |-> num \div den]

\* getQuota: "if quota < 1000 { quota = 1000 }"
noFloor(quota) == quota.v

floorQuota(quota) == IF quota.indefinite \/ quota.v < 1000 THEN 1000 ELSE quota.v

getQuota(appShare, nodeSum, nanAs) ==
    floorQuota(int64OfQuotient(appShare * (CFS_PERIOD_US * CPUS_IN_NODE), nodeSum, nanAs))
        + ((CFS_PERIOD_US * CPUS_IN_NODE) * POD_QUOTA_OVERHEAD) \div 100

quotasOf(response, nanAs) ==
    << << getQuota(response.t00, response.t00 + response.t20, nanAs),
          getQuota(response.t20, response.t00 + response.t20, nanAs) >>,
       << getQuota(response.t01, response.t01 + response.t11, nanAs),
          getQuota(response.t11, response.t01 + response.t11, nanAs) >>,
       << getQuota(response.t12, response.t12, nanAs) >> >>

getNodeCPUQuotas(response, nanAs) ==
    IF response.status # 2
    THEN [nil |-> TRUE, payloads |-> <<>>]
    ELSE [nil |-> FALSE,
          payloads |-> [n \in 1..3 |->
                          [i \in 1..Len(LegacyPodNames[n]) |->
                              <<LegacyPodNames[n][i],
                                ToString(quotasOf(response, nanAs)[n][i])>>]]]

\* the quota the Agent's parsePodShares makes of a default payload's text
defaultQuotasOf(payloads) ==
    [n \in DOMAIN payloads |->
        [i \in DOMAIN payloads[n] |->
            Int64OfFloat(ParseFloat(payloads[n][i][2]).tenths)]]

InitShares ==
    /\ InitAgent
    /\ WireQuiet
    /\ CCQuiet
    /\ input \in { [called |-> FALSE, response |-> r] : r \in LegacyResponses }
    /\ output = NotCalled

CallGetNodeCPUShares ==
    /\ UNCHANGED outsideCall
    /\ ~output.called
    /\ output' = [called |-> TRUE,
                  nodeCPUShares |-> getNodeCPUShares(input.response),
                  printed |-> sharesOf(input.response)]
    /\ UNCHANGED input

NextShares == CallGetNodeCPUShares

SpecShares == InitShares /\ [][NextShares]_vars

\* the calls that make the payloads of applyCPUQuotas: getNodeCPUQuotas on
\* an optimizer response, getDefaultCPUQuotas at start-up
InitQuotas ==
    /\ InitAgent
    /\ WireQuiet
    /\ CCQuiet
    /\ input \in { [called |-> FALSE, default |-> FALSE, response |-> r] :
                      r \in LegacyResponses }
                 \cup { [called |-> FALSE, default |-> TRUE] }
    /\ output = NotCalled

CallGetNodeCPUQuotas ==
    /\ UNCHANGED outsideCall
    /\ ~output.called
    /\ ~input.default
    /\ \E nanAs \in NaNAsInt64 :
          output' = [called |-> TRUE,
                     nodeCPUQuotas |-> getNodeCPUQuotas(input.response, nanAs),
                     printed |-> IF input.response.status = 2
                                 THEN quotasOf(input.response, nanAs) ELSE <<>>]
    /\ UNCHANGED input

CallGetDefaultCPUQuotas ==
    /\ UNCHANGED outsideCall
    /\ ~output.called
    /\ input.default
    /\ output' = [called |-> TRUE,
                  nodeCPUQuotas |-> [nil |-> FALSE, payloads |-> getDefaultCPUQuotas],
                  printed |-> defaultQuotasOf(getDefaultCPUQuotas)]
    /\ UNCHANGED input

NextQuotas ==
    \/ CallGetNodeCPUQuotas
    \/ CallGetDefaultCPUQuotas

SpecQuotas == InitQuotas /\ [][NextQuotas]_vars

(***************************************************************************)
(* SpecAvg: getRollingAverage called round after round on snapshots that   *)
(* do not all hold the same apps.                                          *)
(***************************************************************************)
MaxSnaps == 4           \* snapshots appended

Snapshots ==
    { [a \in {"app1"} |-> 3000000],
      [a \in {"app1", "app2"} |-> IF a = "app1" THEN 10000000 ELSE 1500000],
      [a \in {"app2", "app3"} |-> IF a = "app2" THEN 3000000 ELSE 0],
      [a \in {} |-> 0] }

Roll ==
    /\ UNCHANGED <<agentVars, wireVars, callVars>>
    /\ Len(arrivals) < MaxSnaps
    /\ \E currentAppUtils \in Snapshots :
          LET rolled == getRollingAverage(currentAppUtils, roundsAppCPUUtils)
          IN  /\ avgAppUtils' = rolled.avgAppUtils
              /\ roundsAppCPUUtils' = rolled.newRoundsAppCPUUtils
              /\ arrivals' = Append(arrivals, currentAppUtils)
    /\ UNCHANGED <<enforcement, cc, idx, stage, round, sampler, cpuUtilizations,
                   nodeCPUUtilizations, link, applying, logLines, startupSent,
                   installed, gurobi, applyFailed>>

NextAvg == Roll

SpecAvg == Init /\ [][NextAvg]_vars

(***************************************************************************)
(* A decision: getOptimalLBWeights / getOptimalCPUQuotas /                 *)
(* getOptimalCPUShares, the log line, and the nil test.                    *)
(***************************************************************************)
\* how the HTTP exchange with the optimizer ends
OptimizerOutcomes == {"connection error", "non-200", "unparsable body", "ok"}

\* the bodies a legacy optimizer answers with
RoundResponses ==
    { [status |-> 2, t00 |-> 1, t01 |-> 1, t11 |-> 1, t12 |-> 1, t20 |-> 1],
      [status |-> 3, t00 |-> 0, t01 |-> 0, t11 |-> 0, t12 |-> 0, t20 |-> 0] }

\* GurobiGenericResponse.Status: optimal, or not; parseGurobiResponse does
\* not read it
GenericStatuses == {2, 3}

\* check(err) panicked before a decision was made
Dead == [panics |-> TRUE, status |-> 0, decision |-> [nil |-> TRUE, payloads |-> <<>>]]

Made(status, decision) == [panics |-> FALSE, status |-> status, decision |-> decision]

LegacyDecisions(st) ==
    { Made(r.status, IF st = "CPU_QUOTA" THEN getNodeCPUQuotas(r, nanAs)
                     ELSE getNodeCPUShares(r)) :
        r \in RoundResponses, nanAs \in NaNAsInt64 }

\* what the optimizer call and the parse of its body come to.  The generic
\* call (sendPostRequest) turns a connection error and a non-200 status
\* into an error and check(err) panics; the legacy call (http.Get) panics
\* on a connection error only and hands the body of a non-200 answer,
\* whatever it is, to json.Unmarshal, which panics on what it cannot parse.
CallResults(st, outcome) ==
    IF st = "LB"
    THEN IF outcome = "ok"
         THEN { Made(status, [nil |-> FALSE, payloads |-> SameForAll(w)]) :
                   w \in LBDecisions \cup {<< <<"">> >>}, status \in GenericStatuses }
         ELSE {Dead}
    ELSE CASE outcome = "ok" -> LegacyDecisions(st)
           [] outcome = "non-200" -> LegacyDecisions(st) \cup {Dead}
           [] OTHER -> {Dead}

\* strings.TrimSpace on a string of space-separated tokens
RECURSIVE TrimSpace(_)
TrimSpace(str) ==
    IF Len(str) > 1 /\ Head(str) = <<"">> THEN TrimSpace(Tail(str))
    ELSE IF Len(str) > 1 /\ str[Len(str)] = <<"">>
         THEN TrimSpace(SubSeq(str, 1, Len(str) - 1))
         ELSE str

\* parseLBWeightStr: appWeightMap[1] of every token of the trimmed weights
parseLBWeightStrPanics(lbWeightsStr) ==
    \E i \in DOMAIN TrimSpace(lbWeightsStr) : Len(TrimSpace(lbWeightsStr)[i]) < 2

\* the log line of a decision cannot be formatted
decisionLogPanics(st, replies, decision) ==
    \/ logPanics(replies)
    \/ st = "LB" /\ parseLBWeightStrPanics(decision.payloads[1])

KindOf(st) ==
    CASE st = "LB" -> "applyLBWeights"
      [] st = "CPU_QUOTA" -> "applyCPUQuotas"
      [] OTHER -> "applyCPUShares"

Decide ==
    /\ UNCHANGED outsideCC
    /\ cc = "decide"
    /\ stage \in {"LB", "CPU_QUOTA", "CPU_SHARE"}
    /\ idx' = 1
    /\ UNCHANGED <<enforcement, round, sampler, cpuUtilizations,
                   nodeCPUUtilizations, link, startupSent, installed, applyFailed>>
    /\ IF parsePanics(Replies)
       THEN /\ cc' = "panic"
            /\ UNCHANGED <<roundsAppCPUUtils, arrivals, stage, applying, logLines,
                           avgAppUtils, gurobi>>
       ELSE \E outcome \in OptimizerOutcomes :
            \E result \in CallResults(stage, outcome) :
               LET rolled == getRollingAverage(effectiveAppUtils(stage, Replies),
                                               roundsAppCPUUtils)
               IN  /\ gurobi' = [outcome |-> outcome, status |-> result.status,
                                 stage |-> stage]
                   /\ IF result.panics
                      THEN /\ cc' = "panic"
                           /\ UNCHANGED <<roundsAppCPUUtils, arrivals, stage,
                                          applying, logLines, avgAppUtils>>
                      ELSE /\ roundsAppCPUUtils' = rolled.newRoundsAppCPUUtils
                           /\ avgAppUtils' = rolled.avgAppUtils
                           /\ arrivals' = Append(arrivals,
                                                 effectiveAppUtils(stage, Replies))
                           /\ IF decisionLogPanics(stage, Replies, result.decision)
                              THEN /\ cc' = "panic"
                                   /\ UNCHANGED <<stage, applying, logLines>>
                              ELSE /\ logLines' = logLines + 1
                                   /\ Begin(stage, KindOf(stage), result.decision.nil,
                                            result.decision.payloads)

(***************************************************************************)
(* SpecCC: the Controller from start-up on, in any enforcement mode, with   *)
(* an Agent per node that answers every command.                           *)
(***************************************************************************)
InitCC ==
    /\ InitAgent
    /\ WireQuiet
    /\ \E mode \in Modes : CCBegin(mode)
    /\ NoCall

NextCC ==
    \/ UpdatePodsSend
    \/ UpdatePodsRecv
    \/ setDefaultLBWeights
    \/ setDefaultCPUQuotas
    \/ setDefaultCPUShares
    \/ ApplySend
    \/ ApplyRecv
    \/ StartRound
    \/ LogOnly
    \/ Decide
    \/ \E n \in Nodes :
          \/ AgentReplies(n)
          \/ SamplerSend(n)
          \/ SamplerRecv(n)
          \/ Handover(n)

SpecCC == InitCC /\ [][NextCC]_vars

(***************************************************************************)
(* FairCC: SpecCC with the scheduling the fan-in of a round relies on: the *)
(* Go scheduler runs every goroutine that can take a step (the samplers'   *)
(* write, read and channel send), and every node's read of the reply       *)
(* returns, with data or with an error.                                    *)
(***************************************************************************)
FairCC ==
    /\ SpecCC
    /\ \A n \in Nodes :
          /\ WF_vars(SamplerSend(n))
          /\ WF_vars(AgentReplies(n))
          /\ WF_vars(SamplerRecv(n))
          /\ WF_vars(Handover(n))

(***************************************************************************)
(* Spec: one command connection served in full, every command of Msgs.     *)
(* SpecLB: NConn command connections and NHttp HTTP requests in progress   *)
(* contending for the LB weights.                                          *)
(***************************************************************************)
Session == {1}

Next ==
    \E c \in Session :
        \/ Accept(c)
        \/ ReadMsg(c, Msgs)
        \/ ReadError(c)
        \/ UpdatePods(c)
        \/ applyCPUShares(c)
        \/ applyCPUQuotas(c)
        \/ UnknownMessage(c)
        \/ SampleBefore(c)
        \/ SampleAfter(c)
        \/ LBLock(c)
        \/ LBStoreData(c)
        \/ LBStoreLen(c)
        \/ LBUnlock(c)
        \/ LBAck(c)

Spec == Init /\ [][Next]_vars

NextLB ==
    \/ \E c \in Conns :
          \/ Accept(c)
          \/ ReadMsg(c, LBPeerMsgs)
          \/ ReadError(c)
          \/ SampleBefore(c)
          \/ SampleAfter(c)
          \/ LBLock(c)
          \/ LBStoreData(c)
          \/ LBStoreLen(c)
          \/ LBUnlock(c)
          \/ LBAck(c)
    \/ \E h \in Https :
          \/ HttpRequest(h)
          \/ HttpLock(h)
          \/ HttpLoad(h)
          \/ HttpUnlock(h)
          \/ HttpRespond(h)
          \/ HttpBodyError(h)

SpecLB == Init /\ [][NextLB]_vars

(***************************************************************************)
(* SpecPeers: two command connections open at once and one HTTP request at *)
(* a time.  The peer of connection 1 installs p1 as u1, sets shares and    *)
(* weights and samples; the peer of connection 2 installs p1 as u2 and     *)
(* sets quotas and other weights.                                          *)
(***************************************************************************)
Peers == {1, 2}
Readers == {1}

PeerMsgs(c) ==
    IF c = 1
    THEN { Cmd("updatePods", << <<"p1", "u1">> >>),
           Cmd("applyCPUShares", << <<"p1", "256">> >>),
           Cmd("applyLBWeights", << <<"app1", "100.000000">> >>),
           Cmd("getCPUUtilizations", <<>>) }
    ELSE { Cmd("updatePods", << <<"p1", "u2">> >>),
           Cmd("applyCPUQuotas", << <<"p1", "256">> >>),
           Cmd("applyLBWeights", << <<"app1", "40.000000|60.000000">> >>) }

NextPeers ==
    \/ \E c \in Peers :
          \/ Accept(c)
          \/ ReadMsg(c, PeerMsgs(c))
          \/ ReadError(c)
          \/ UpdatePods(c)
          \/ applyCPUShares(c)
          \/ applyCPUQuotas(c)
          \/ SampleBefore(c)
          \/ SampleAfter(c)
          \/ LBLock(c)
          \/ LBStoreData(c)
          \/ LBStoreLen(c)
          \/ LBUnlock(c)
          \/ LBAck(c)
    \/ \E h \in Readers :
          \/ HttpRequest(h)
          \/ HttpLock(h)
          \/ HttpLoad(h)
          \/ HttpUnlock(h)
          \/ HttpRespond(h)
          \/ HttpBodyError(h)

SpecPeers == Init /\ [][NextPeers]_vars


(***************************************************************************)
(*                    Properties of the Host Agent                         *)
(***************************************************************************)
IsLBCommand(m) == m # NoMsg /\ msgType(m) = "applyLBWeights"
IsApplyCommand(m) == m # NoMsg /\ msgType(m) \in {"applyCPUShares", "applyCPUQuotas"}

\* a handler that has finished the command it read last
Served(c) == pc[c] \in {"read", "closed"} /\ msgFromCC[c] # NoMsg

\* C1: an HTTP request that began after the Agent acknowledged
\* "applyLBWeights S", and finished before the next acknowledgement, has
\* returned exactly the payload S as its body.
C1_WeightsArePayloadOfLastAck ==
    \A h \in Https :
        (hpc[h] = "idle" /\ body[h].kind = "weights" /\ startAck[h] # NoAck)
            => body[h].text = Payload(startAck[h])

\* C2: whatever the interleaving of applyLBWeights commands and HTTP
\* requests, the value an HTTP handler loads, and the weights it returns, is
\* one whole stored value: the initial empty string or the complete value
\* one applyLBWeights stored; never a mix of two values.
WholeValues == {DEFAULT_LB_WEIGHTS} \cup LBWeightsMsgs

C2_ReadersSeeWholeValues ==
    \A h \in Https :
        /\ currLBWeights[h] # NoMsg => currLBWeights[h] \in WholeValues
        /\ body[h].kind = "weights" => body[h].text \in WholeValues

\* an HTTP handler has loaded a stored value under the lock while a command
\* connection waits with another value to store
C2_Witness ==
    \E h \in Https : \E c \in Conns :
        /\ hpc[h] = "unlock"
        /\ currLBWeights[h] \in LBWeightsMsgs
        /\ pc[c] = "handle"
        /\ IsLBCommand(msgFromCC[c])
        /\ msgFromCC[c] # currLBWeights[h]

\* C3: every command read on a connection has got exactly one response on
\* that connection by the time the handler is back at its read, and none
\* while the handler is still serving it.
C3_ExactlyOneResponse ==
    \A c \in Conns :
        /\ Served(c) => Len(wire[c]) = 1
        /\ pc[c] \notin {"read", "closed", "listen"} => wire[c] = <<>>

\* a command that fails has been answered once, and the handler reads again
C3_Witness ==
    /\ pc[1] = "read"
    /\ msgFromCC[1] # NoMsg
    /\ msgType(msgFromCC[1]) = "applyCPUQuotas"
    /\ wire[1] = <<Failure>>

\* C5: an updatePods whose pairs are all well-formed leaves the session map
\* equal to the pairs of its payload (the last pair of a repeated name) and
\* answers Success; one with a malformed pair leaves the session map as it
\* was and answers Failure.
WellFormedPairs(pairs) == \A i \in DOMAIN pairs : Len(pairs[i]) = 2

PairsMap(pairs) ==
    [name \in {pairs[i][1] : i \in DOMAIN pairs} |->
        LET last == CHOOSE i \in DOMAIN pairs :
                        /\ pairs[i][1] = name
                        /\ \A j \in DOMAIN pairs : pairs[j][1] = name => j <= i
        IN  pairs[last][2]]

C5_UpdatePodsReplacesOrKeeps ==
    [][\A c \in Conns :
          (pc[c] = "handle" /\ msgType(msgFromCC[c]) = "updatePods" /\ pc'[c] = "read")
              => LET pairs == Tail(msgFromCC[c])
                 IN  IF WellFormedPairs(pairs)
                     THEN wire'[c] = <<Success>> /\ podUIDs'[c] = PairsMap(pairs)
                     ELSE wire'[c] = <<Failure>> /\ podUIDs'[c] = podUIDs[c]]_vars

\* a malformed updatePods, its first pair well-formed, was refused and the
\* map installed before it is still in place
C5_Witness ==
    /\ pc[1] = "read"
    /\ msgFromCC[1] = Cmd("updatePods", << <<"p2", "u2">>, <<"p1">> >>)
    /\ wire[1] = <<Failure>>
    /\ podUIDs[1] = [x \in {"p1"} |-> "u1"]

\* C6: with a session map installed, an applyCPUShares or applyCPUQuotas
\* that names a pod the map does not hold is answered Failure.
NamesUnknownPod(c) ==
    \E i \in DOMAIN Tail(msgFromCC[c]) :
        LET pair == Tail(msgFromCC[c])[i]
        IN  Len(pair) = 2 /\ pair[1] \notin DOMAIN podUIDs[c]

C6_UnknownPodFails ==
    \A c \in Conns :
        (Served(c) /\ IsApplyCommand(msgFromCC[c]) /\ podUIDs[c] # EmptyMap
            /\ NamesUnknownPod(c))
            => wire[c] = <<Failure>>

\* C7: in a getCPUUtilizations reply, a pod one of whose two reads failed is
\* reported as exactly -1.
MinusOne == -1 * 1000000

C7_FailedReadReportsMinusOne ==
    \A c \in Conns :
        (Served(c) /\ msgType(msgFromCC[c]) = "getCPUUtilizations")
            => \A i \in DOMAIN wire[c][1].utils :
                  LET p == wire[c][1].utils[i][1]
                  IN  (initialCPUUtils[c][p] = -1 \/ finalCPUUtils[c][p] = -1)
                          => wire[c][1].utils[i][2] = MinusOne

\* C8: every percentage of a getCPUUtilizations reply is >= 0 or the
\* sentinel -1, whichever reads succeeded.
C8_PercentagesNonNegative ==
    \A c \in Conns :
        (Served(c) /\ msgType(msgFromCC[c]) = "getCPUUtilizations")
            => \A i \in DOMAIN wire[c][1].utils :
                  \/ wire[c][1].utils[i][2] >= 0
                  \/ wire[c][1].utils[i][2] = MinusOne

\* C9: an applyCPUShares or applyCPUQuotas answered Failure because a cgroup
\* write failed has changed no cgroup file.
C9_NoPartialApply ==
    \A c \in Conns :
        (Served(c) /\ IsApplyCommand(msgFromCC[c]) /\ parsePodShares(msgFromCC[c]).ok
            /\ wire[c] = <<Failure>>)
            => cgroupWrites[c] = <<>>


(***************************************************************************)
(*                 Properties of a node's connection                       *)
(***************************************************************************)
WholeCommand(k) == << [cmd |-> k, from |-> 1, to |-> issued[k].len] >>

\* C4: what the Agent processes as its k-th command is the whole k-th
\* command the Controller issued, whatever its length, and what the
\* Controller takes as the reply to its k-th command is the Agent's response
\* to that k-th command.
C4_CommandsArriveAsIssued ==
    /\ \A k \in DOMAIN agentSeen : k \in DOMAIN issued /\ agentSeen[k] = WholeCommand(k)
    /\ \A k \in DOMAIN paired : paired[k] = << [answers |-> k] >>


(***************************************************************************)
(*                 Properties of the rolling window                        *)
(***************************************************************************)
LastN(seq, n) ==
    IF Len(seq) <= n THEN seq ELSE SubSeq(seq, Len(seq) - n + 1, Len(seq))

\* C10: in every enforcement loop the window never holds more than W = 50
\* snapshots, and it holds the most recent ones in arrival order: when a
\* snapshot arrives at a full window, the oldest one is dropped.
C10_WindowBounded ==
    /\ Len(roundsAppCPUUtils) <= ROUNDS_FOR_ROLLING_AVG_OF_CPU_UTILS
    /\ roundsAppCPUUtils = LastN(arrivals, ROUNDS_FOR_ROLLING_AVG_OF_CPU_UTILS)

\* a snapshot has arrived at a full window, and the window is still full
C10_Witness ==
    /\ Len(arrivals) > ROUNDS_FOR_ROLLING_AVG_OF_CPU_UTILS
    /\ Len(roundsAppCPUUtils) = ROUNDS_FOR_ROLLING_AVG_OF_CPU_UTILS
    /\ roundsAppCPUUtils[1] # arrivals[1]


(***************************************************************************)
(*                 Properties of the rolling average                       *)
(***************************************************************************)
RECURSIVE PresentSum(_, _, _)
PresentSum(window, a, k) ==
    IF k = 0 THEN 0
    ELSE (IF a \in DOMAIN window[k] THEN window[k][a] ELSE 0)
         + PresentSum(window, a, k - 1)

\* C11: the average of an app is the sum of its values over the snapshots
\* in the window, a snapshot that does not hold the app counting as 0,
\* divided by the number of snapshots in the window; after k < W rounds that
\* number is k, not W.
C11_AverageOverWindowLength ==
    /\ DOMAIN avgAppUtils =
          UNION {DOMAIN roundsAppCPUUtils[k] : k \in DOMAIN roundsAppCPUUtils}
    /\ \A a \in DOMAIN avgAppUtils :
          /\ avgAppUtils[a].sum =
                PresentSum(roundsAppCPUUtils, a, Len(roundsAppCPUUtils))
          /\ avgAppUtils[a].n = Len(roundsAppCPUUtils)
          /\ Len(arrivals) < ROUNDS_FOR_ROLLING_AVG_OF_CPU_UTILS
                => avgAppUtils[a].n = Len(arrivals)

\* three rounds in, an app that one snapshot holds and another does not
C11_Witness ==
    /\ Len(arrivals) = 3
    /\ \E a \in DOMAIN avgAppUtils :
          /\ avgAppUtils[a].sum > 0
          /\ \E k \in DOMAIN roundsAppCPUUtils : a \notin DOMAIN roundsAppCPUUtils[k]


(***************************************************************************)
(*                 Properties of the emitted LB weights                    *)
(***************************************************************************)
Abs(x) == IF x < 0 THEN -x ELSE x

SortedValuesOf(a) == getValuesFromMapSortedByKeys(input.result[a])

\* C18 as the text has it: the k weights printed for an app add up to
\* exactly 100 when the allocations do not add up to 0, and each of them is
\* exactly 100/k when they do.
C18_WeightsSumToExactly100 ==
    output.called =>
        \A a \in DOMAIN input.result :
            LET v == SortedValuesOf(a)
                w == output.printed[a]
            IN  /\ Len(w) = Len(v)
                /\ SeqSum(v) # 0 => SeqSum(w) = 100 * 1000000
                /\ SeqSum(v) = 0 => \A i \in DOMAIN w : w[i] * Len(v) = 100 * 1000000

\* C18, with the rounding of "%f": every weight printed is v_i*100/sum(v),
\* or 100/k when the allocations add up to 0, rounded to six decimals, so
\* the k weights of an app add up to 100 within k/2 millionths.
C18_WeightsNormalizedAsPrinted ==
    output.called =>
        \A a \in DOMAIN input.result :
            LET v == SortedValuesOf(a)
                w == output.printed[a]
                sum == SeqSum(v)
            IN  /\ Len(w) = Len(v)
                /\ sum # 0 =>
                      \A i \in DOMAIN w :
                          2 * Abs(w[i] * sum - v[i] * 100 * 1000000) <= sum
                /\ sum = 0 =>
                      \A i \in DOMAIN w :
                          2 * Abs(w[i] * Len(v) - 100 * 1000000) <= Len(v)
                /\ 2 * Abs(SeqSum(w) - 100 * 1000000) <= Len(v)

\* three replicas with allocations 1, 2 and 0 were given their weights
C18_Witness ==
    /\ output.called
    /\ SortedValuesOf("app1") = <<1, 2, 0>>
    /\ output.printed["app1"] = <<33333333, 66666667, 0>>


(***************************************************************************)
(*                 Properties of the emitted quotas and shares             *)
(***************************************************************************)
QuotaFloor ==
    MINIMUM_CPU_QUOTA
        + ((CFS_PERIOD_US * CPUS_IN_NODE) * POD_QUOTA_OVERHEAD) \div 100

AllAtLeastFloor(quotas) ==
    \A n \in DOMAIN quotas : \A i \in DOMAIN quotas[n] : quotas[n][i] >= QuotaFloor

\* C19 as the text has it: no quota the Controller emits in an
\* applyCPUQuotas command, the start-up defaults included, is below
\* 1000 + 20000 microseconds.
C19_NoEmittedQuotaBelowFloor ==
    output.called => AllAtLeastFloor(output.printed)

\* C19, the defaults set apart: every quota made from an optimizer response
\* is at least 1000 + 20000 microseconds, zero allocations and zero node
\* sums included; the start-up defaults are -1, no limit, for every pod.
C19_OptimizerQuotasAtLeastFloor ==
    output.called =>
        IF input.default
        THEN \A n \in DOMAIN output.printed :
                \A i \in DOMAIN output.printed[n] : output.printed[n][i] = -1
        ELSE AllAtLeastFloor(output.printed)

\* quotas were made from an optimal response whose node 1 has a zero sum
C19_Witness ==
    /\ output.called
    /\ ~input.default
    /\ input.response.status = 2
    /\ input.response.t00 + input.response.t20 = 0
    /\ input.response.t01 > 0
    /\ input.response.t11 > 0
    /\ output.printed[1] = <<QuotaFloor, QuotaFloor>>

RECURSIVE MicroSum(_)
MicroSum(shares) ==
    IF shares = <<>> THEN 0 ELSE Head(shares).micro + MicroSum(Tail(shares))

NodeSums(response) ==
    << response.t00 + response.t20, response.t01 + response.t11, response.t12 >>

\* C20: for every node whose allocations have a positive sum, the shares
\* printed for it in one applyCPUShares payload are numbers and add up to
\* 512, to within the rounding of the sixth printed decimal.
C20_SharesAddUpTo512 ==
    (output.called /\ ~output.nodeCPUShares.nil) =>
        \A n \in 1..3 :
            NodeSums(input.response)[n] > 0 =>
                /\ \A i \in DOMAIN output.printed[n] : ~output.printed[n][i].nan
                /\ Abs(MicroSum(output.printed[n]) - 512 * 1000000) <= 1

\* node 1 shared 1 to 2: the two shares are not whole numbers
C20_Witness ==
    /\ output.called
    /\ ~output.nodeCPUShares.nil
    /\ input.response.t00 = 1
    /\ input.response.t20 = 2
    /\ output.nodeCPUShares.payloads[1] =
          << <<"app1-node1", "170.666667">>, <<"app3-node1", "341.333333">> >>


(***************************************************************************)
(*                 Properties of the Controller's rounds                   *)
(***************************************************************************)
InRound == round >= 1 /\ cc \in {"decide", "applySend", "applyWait"}

RepliesOf(r, n) == {UtilsOf(r, n)} \cup MalformedReplies(n)

\* C12: while the replies of a round are being gathered nothing but
\* getCPUUtilizations is in flight and nothing is being applied; once the
\* round is past the gathering every node's goroutine has handed its reply
\* over and slot n holds the reply of node n.
C12_SamplingBarrier ==
    /\ cc = "gather" =>
          /\ applying = NoApply
          /\ \A n \in Nodes :
                link[n].cmd # NoMsg => msgType(link[n].cmd) = "getCPUUtilizations"
    /\ InRound =>
          \A n \in Nodes :
              /\ sampler[n] = "done"
              /\ nodeCPUUtilizations[n] = cpuUtilizations[n]
              /\ nodeCPUUtilizations[n] \in RepliesOf(round, n)

\* a round was decided whose replies arrived in the order node 2, node 1
C12_Witness ==
    /\ cc = "applySend"
    /\ round = 2
    /\ \A n \in Nodes : nodeCPUUtilizations[n] = UtilsOf(2, n)
    /\ UtilsOf(2, 1) # UtilsOf(2, 2)

Panicked == cc = "panic"

\* C13 as the text has it: after an optimizer call that failed (connection
\* error, non-200 status or unparsable body) in a round whose replies were
\* all well-formed, the Controller is still running its loop.
C13_FailedCallIsRoundLocal ==
    (/\ gurobi.outcome \in {"connection error", "non-200", "unparsable body"}
     /\ \A n \in Nodes : nodeCPUUtilizations[n] = UtilsOf(round, n))
        => ~Panicked

MalformedReply(reply) == replyParsePanics(reply) \/ replyLogPanics(reply)

\* C14 as the text has it: with a malformed reply among the replies of the
\* round, the Controller is still running its loop.
C14_MalformedReplyIsRoundLocal ==
    (round >= 1 /\ \E n \in Nodes : sampler[n] = "done"
                                   /\ MalformedReply(nodeCPUUtilizations[n]))
        => ~Panicked

IsLegacyStage(st) == st \in {"CPU_QUOTA", "CPU_SHARE"}

NonOptimal ==
    /\ gurobi.outcome \in {"ok", "non-200"}
    /\ IsLegacyStage(gurobi.stage)
    /\ gurobi.status # 2

\* C15: in CPU_SHARE, CPU_QUOTA and BOTH, the step that decides from a
\* response whose status is not 2 writes the round's log line and starts no
\* apply loop, and the Controller goes on to the next decision or the next
\* round; no apply command is sent while the last response is such a one.
C15_NonOptimalStatusSendsNothing ==
    [][ /\ (cc = "decide" /\ IsLegacyStage(stage) /\ NonOptimal' /\ ~Panicked')
            => /\ logLines' = logLines + 1
               /\ applying' = NoApply
               /\ link' = link
               /\ cc' \in {"roundStart", "decide"}
        /\ NonOptimal' => cc' \notin {"applySend", "applyWait"}
      ]_vars

\* a round of CPU_SHARE went by without an apply and the Controller is at
\* the head of the loop again
C15_Witness ==
    /\ enforcement = "CPU_SHARE"
    /\ NonOptimal
    /\ gurobi.status = 3
    /\ cc = "roundStart"
    /\ round = 2
    /\ logLines = 2

IsLegacyMode == enforcement \in {"CPU_QUOTA", "CPU_SHARE", "BOTH"}

WasSent(n, kind) ==
    \E i \in DOMAIN startupSent[n] : msgType(startupSent[n][i]) = kind

\* C16 as the text has it: in CPU_QUOTA, CPU_SHARE and BOTH, once the loop
\* has asked for utilizations every node has been sent an applyLBWeights,
\* the applyCPUQuotas with -1 for each pod and the applyCPUShares with the
\* default shares.
C16_ThreeDefaultsBeforeTheLoop ==
    (IsLegacyMode /\ round >= 1) =>
        \A n \in Nodes :
            /\ WasSent(n, "applyLBWeights")
            /\ \E i \in DOMAIN startupSent[n] :
                  startupSent[n][i] = Cmd("applyCPUQuotas", getDefaultCPUQuotas[n])
            /\ \E i \in DOMAIN startupSent[n] :
                  startupSent[n][i] = Cmd("applyCPUShares", getDefaultCPUShares[n])

\* C17: the first command sent to a node is its updatePods, node by node in
\* topology order, and no other command is sent to any node, nor does the
\* loop begin, before every node has answered Success.
C17_TopologyInstallFirst ==
    /\ \A n \in Nodes :
          /\ startupSent[n] # <<>> =>
                /\ startupSent[n][1] = updatePodsMsg(n)
                /\ \A m \in Nodes : m < n => m \in installed
          /\ (link[n].cmd # NoMsg /\ msgType(link[n].cmd) # "updatePods")
                => installed = Nodes
          /\ Len(startupSent[n]) > 1 => installed = Nodes
    /\ round >= 1 => installed = Nodes
    /\ (Panicked /\ round = 0 /\ installed # Nodes)
          => \A n \in Nodes : Len(startupSent[n]) <= 1

\* every node answered Success and the loop is asking for utilizations
C17_Witness ==
    /\ installed = Nodes
    /\ round = 1
    /\ \A n \in Nodes :
          /\ link[n].cmd = Cmd("getCPUUtilizations", <<>>)
          /\ startupSent[n][1] = updatePodsMsg(n)

\* C21 as the text has it, in share mode: when an optimal response gives a
\* node allocations whose sum is 0, every share printed for that node is a
\* number, the equal split of the 512 budget among the node's pods.
C21_ZeroSumGivesEqualSplit ==
    (output.called /\ ~output.nodeCPUShares.nil) =>
        \A n \in 1..3 :
            NodeSums(input.response)[n] = 0 =>
                \A i \in DOMAIN output.printed[n] :
                    /\ ~output.printed[n][i].nan
                    /\ output.printed[n][i].micro
                          = MicroQuotient(512, Len(output.printed[n]))

(***************************************************************************)
(*                 Properties of the LB weights string                     *)
(***************************************************************************)
\* C22 as the text has it: a response parsed again gives the string it gave
\* before, app entries in the same order.
C22_SameStringEveryEvaluation ==
    [][ (output.called /\ output'.called) => output'.lbWeights = output.lbWeights ]_vars

(***************************************************************************)
(*                 Properties of the Agent's dispatch                      *)
(***************************************************************************)
IsUnknownCommand(m) ==
    /\ m # NoMsg
    /\ msgType(m) \notin {"updatePods", "applyLBWeights", "applyCPUShares",
                          "applyCPUQuotas", "getCPUUtilizations"}

\* C23: the step that handles a command whose first token is none of the
\* five command names writes the one response "Unknown message type", goes
\* back to reading the connection, and leaves the session's pod map, the LB
\* weights and the cgroups as they were; a connection closes only on a read
\* that fails.
C23_UnknownCommandAnswered ==
    [][ \A c \in Session :
          /\ (pc[c] = "handle" /\ IsUnknownCommand(msgFromCC[c]) /\ pc'[c] # pc[c])
                => /\ wire'[c] = <<Reply("Unknown message type")>>
                   /\ pc'[c] = "read"
                   /\ podUIDs' = podUIDs
                   /\ lbWeights' = lbWeights
                   /\ cgroupWrites' = cgroupWrites
          /\ (pc'[c] = "closed" /\ pc[c] # "closed") => pc[c] = "read"
      ]_vars

\* an unknown command was answered on a session that has a pod installed,
\* and the Agent is reading again
C23_Witness ==
    /\ pc[1] = "read"
    /\ IsUnknownCommand(msgFromCC[1])
    /\ wire[1] = <<UnknownMessageType>>
    /\ podUIDs[1] # EmptyMap

(***************************************************************************)
(*                 Properties of the window's snapshots                    *)
(***************************************************************************)
Aggregated == getPerAppUtilizations(Replies)

\* the demand the text describes, from the aggregated utilization of an app
EffectiveDemand(a, util) ==
    (IF util < NOISE * 1000000 THEN 0 ELSE util)
        + (IF a = "app3" THEN OVERHEAD * 1000000 ELSE OVERHEAD * 2 * 1000000)

\* C24: whenever a snapshot is appended, it is, in the quota and share
\* decisions, the aggregated utilization of the round with every app below
\* NOISE set to 0 and then OVERHEAD*2 added (OVERHEAD for app3), and in the
\* LB decision the aggregated utilization as it is.
C24_EffectiveDemandAppended ==
    [][ arrivals' # arrivals =>
          /\ Len(arrivals') = Len(arrivals) + 1
          /\ LET snapshot == arrivals'[Len(arrivals')]
             IN  /\ DOMAIN snapshot = DOMAIN Aggregated
                 /\ \A a \in DOMAIN snapshot :
                       snapshot[a] = IF stage = "LB" THEN Aggregated[a]
                                     ELSE EffectiveDemand(a, Aggregated[a])
      ]_vars

\* a quota or share decision appended a snapshot in which an app measured
\* at 1.5 counts as OVERHEAD*2 and an app measured above NOISE as itself
\* plus OVERHEAD*2
C24_Witness ==
    /\ cc = "applySend"
    /\ IsLegacyStage(stage)
    /\ arrivals # <<>>
    /\ \E a \in DOMAIN Aggregated :
          /\ Aggregated[a] = 1500000
          /\ arrivals[Len(arrivals)][a] = OVERHEAD * 2 * 1000000
    /\ \E a \in DOMAIN Aggregated :
          /\ a # "app3"
          /\ Aggregated[a] >= NOISE * 1000000
          /\ arrivals[Len(arrivals)][a] = Aggregated[a] + OVERHEAD * 2 * 1000000

(***************************************************************************)
(*                 Properties of the Controller's connections              *)
(***************************************************************************)
Outstanding(n) == link[n].cmd # NoMsg

\* C25: every step that writes a command to a node finds no command
\* outstanding on that node's connection: the earlier command, if any, has
\* had its reply read.
C25_OneCommandPerNode ==
    [][ \A n \in Nodes :
          (/\ link'[n] # link[n]
           /\ link'[n].cmd # NoMsg
           /\ link'[n].resp = Unanswered)
              => ~Outstanding(n)
      ]_vars

\* in a round of BOTH, with the shares being applied after the sampling and
\* the quotas: node 1 has answered and node 2's command is in flight
C25_Witness ==
    /\ enforcement = "BOTH"
    /\ round >= 1
    /\ stage = "CPU_SHARE"
    /\ cc = "applyWait"
    /\ idx = 2
    /\ Outstanding(2)
    /\ msgType(link[2].cmd) = "applyCPUShares"
    /\ ~Outstanding(1)

\* C26: the apply commands of a loop go to the nodes in topology order, one
\* at a time; the step that reads a node's response, Success or not, moves
\* on to the next node, and after the last node to what follows the loop
\* (the next decision or the next round); it never ends the Controller.
C26_ApplyFailureDoesNotStopFanOut ==
    [][ /\ (cc = "applySend" /\ cc' = "applyWait")
            => /\ Outstanding(idx)'
               /\ msgType(link'[idx].cmd) = applying.kind
               /\ \A m \in Nodes \ {idx} : link'[m] = link[m]
               /\ \A m \in Nodes : m > idx => ~Outstanding(m)
        /\ (cc = "applyWait" /\ cc' # cc)
            => /\ round >= 1 => ~Panicked'
               /\ idx < NNodes => (cc' = "applySend" /\ idx' = idx + 1)
               /\ idx = NNodes =>
                     /\ idx' = 1
                     /\ round >= 1 => cc' \in {"roundStart", "decide"}
      ]_vars

\* node 1 did not answer Success to the round's apply command, node 2 was
\* sent its own all the same and answered Success, and the Controller is at
\* the head of the loop again
C26_Witness ==
    /\ round = 1
    /\ cc = "roundStart"
    /\ gurobi.outcome = "ok"
    /\ 1 \in applyFailed
    /\ 2 \notin applyFailed

KeepsWindow == enforcement \in {"LB", "CPU_QUOTA", "CPU_SHARE", "BOTH"}

Min(a, b) == IF a <= b THEN a ELSE b

\* C27: in every loop that keeps a rolling window, each control round appends
\* exactly one snapshot: at the head of the loop, after r completed rounds,
\* r snapshots have been appended and the window holds min(r, W) of them.
C27_OneWindowEntryPerRound ==
    (KeepsWindow /\ cc = "roundStart" /\ round >= 1)
        => /\ Len(arrivals) = round
           /\ Len(roundsAppCPUUtils)
                  = Min(round, ROUNDS_FOR_ROLLING_AVG_OF_CPU_UTILS)

\* C28: in every enforcement mode each completed control round writes
\* exactly one log line: at the head of the loop, after r completed rounds,
\* r lines have been written.
C28_OneLogRecordPerRound ==
    (enforcement \in {"NONE", "LB", "CPU_QUOTA", "CPU_SHARE", "BOTH"}
        /\ cc = "roundStart" /\ round >= 1)
        => logLines = round

NonOptimalLB ==
    /\ gurobi.stage = "LB"
    /\ gurobi.outcome = "ok"
    /\ gurobi.status # 2

\* C29: in LB mode, while the round's optimizer response is one whose status
\* is not 2, the Controller is sending no applyLBWeights and has not ended:
\* the round's action is skipped and the loop goes on.
C29_NonOptimalLBRoundIsSkipped ==
    NonOptimalLB => cc \notin {"applySend", "applyWait", "panic"}

NumberTexts == {"256", "512", "128.7", "-1"}

\* a pair of the payload with no single ':' or with a value that is no number
MalformedPair(podStr) == Len(podStr) # 2 \/ podStr[2] \notin NumberTexts

MalformedPayload(msg) == \E i \in 2..Len(msg) : MalformedPair(msg[i])

\* C30: the step that handles an applyCPUShares or applyCPUQuotas whose
\* payload has a malformed pair answers Failure and leaves no cgroup write
\* made for that command, the well-formed pairs before the malformed one
\* included.
C30_ParseBeforeWrite ==
    [][ \A c \in Session :
           (pc[c] = "handle" /\ IsApplyCommand(msgFromCC[c])
                /\ MalformedPayload(msgFromCC[c]))
              => /\ wire'[c] = wire[c] \o <<Failure>>
                 /\ cgroupWrites'[c] = <<>>
      ]_vars

\* an applyCPUQuotas whose second pair is malformed was answered, and its
\* first pair names a pod the session map holds
C30_Witness ==
    /\ pc[1] = "read"
    /\ msgFromCC[1] = Cmd("applyCPUQuotas", << <<"p1", "256">>, <<"p2", "512", "x">> >>)
    /\ "p1" \in DOMAIN podUIDs[1]
    /\ wire[1] = <<Failure>>
    /\ cgroupWrites[1] = <<>>

(***************************************************************************)
(*                     Progress of the sampling fan-in                     *)
(***************************************************************************)
\* C34: when every node's read of the getCPUUtilizations reply returns, a
\* round that is gathering gets past the barrier, and past the barrier
\* every sampler has sent its one result and none is left on the channel.
C34_FanInCompletes ==
    /\ (cc = "gather") ~> (cc = "decide")
    /\ [](cc \in {"decide", "roundStart"} /\ round >= 1
             => \A n \in Nodes : sampler[n] = "done")

\* the barrier was passed in a round in which the read of node 1 failed
C34_Witness ==
    /\ cc = "decide"
    /\ round = 2
    /\ nodeCPUUtilizations[1] = Reply("")
    /\ nodeCPUUtilizations[2] = UtilsOf(2, 2)
    /\ \A n \in Nodes : sampler[n] = "done"

(***************************************************************************)
(*            Properties of concurrent sessions on the Agent               *)
(***************************************************************************)
\* connection c's handler takes the step
StepOf(c) == pc'[c] # pc[c]

\* C31: the pod map of a connection is empty when the connection is
\* accepted; a step of one connection's handler never changes the pod map
\* of another, and an apply on a connection writes under the UID that its
\* own map holds for the pod (the empty UID when it holds none); the
\* weights a connection has stored are the one value of the Agent.
C31_SessionIsolation ==
    [][ \A c \in Peers :
           /\ (pc[c] = "listen" /\ StepOf(c)) => podUIDs'[c] = EmptyMap
           /\ StepOf(c) => \A d \in Peers \ {c} : podUIDs'[d] = podUIDs[d]
           /\ (pc[c] = "handle" /\ IsApplyCommand(msgFromCC[c]) /\ StepOf(c))
                 => \A i \in DOMAIN cgroupWrites'[c] :
                       cgroupWrites'[c][i].uid = MapGet(podUIDs[c], "p1")
           /\ (pc[c] = "unlock" /\ StepOf(c))
                 => StringAt(lbWeights') = storedWeights(msgFromCC[c])
      ]_vars

\* both connections are open, each has installed its own UID for p1, and
\* connection 2 has written a quota under its own after connection 1
\* stored weights
C31_Witness ==
    /\ pc[1] = "read"
    /\ pc[2] = "read"
    /\ podUIDs[1] = [p \in {"p1"} |-> "u1"]
    /\ podUIDs[2] = [p \in {"p1"} |-> "u2"]
    /\ IsLBCommand(msgFromCC[1])
    /\ StringAt(lbWeights) = msgFromCC[1]
    /\ msgFromCC[2] = Cmd("applyCPUQuotas", << <<"p1", "256">> >>)
    /\ Len(cgroupWrites[2]) = 1
    /\ cgroupWrites[2][1].uid = "u2"

\* connection c's handler is serving a command of one of types
Handling(c, types) ==
    /\ pc[c] \notin {"listen", "read", "closed"}
    /\ msgType(msgFromCC[c]) \in types

\* C32: the LB weights change only in a step of an applyLBWeights and a
\* session pod map only in a step of an updatePods on its connection;
\* applyCPUShares, applyCPUQuotas and getCPUUtilizations change neither,
\* whatever they answer, updatePods leaves the weights and applyLBWeights
\* the pod maps as they were, and a step of an HTTP request changes neither
\* of them nor anything of a command connection.
C32_FrameConditions ==
    [][ /\ lbWeights' # lbWeights
            => \E c \in Peers : StepOf(c) /\ Handling(c, {"applyLBWeights"})
        /\ \A c \in Peers :
              /\ podUIDs'[c] # podUIDs[c]
                    => StepOf(c) /\ Handling(c, {"updatePods"})
              /\ (StepOf(c) /\ Handling(c, {"applyCPUShares", "applyCPUQuotas",
                                            "getCPUUtilizations"}))
                    => lbWeights' = lbWeights /\ podUIDs' = podUIDs
              /\ (StepOf(c) /\ Handling(c, {"updatePods"}))
                    => lbWeights' = lbWeights
              /\ (StepOf(c) /\ Handling(c, {"applyLBWeights"}))
                    => podUIDs' = podUIDs
        /\ \A h \in Readers :
              hpc'[h] # hpc[h]
                 => /\ lbWeights' = lbWeights
                    /\ podUIDs' = podUIDs
                    /\ cgroupWrites' = cgroupWrites
                    /\ wire' = wire
                    /\ pc' = pc
      ]_vars

\* connection 1 holds its pod map and has had an applyCPUShares fail,
\* connection 2 has had an applyCPUQuotas succeed, and an HTTP request has
\* returned the weights connection 2 stored before
C32_Witness ==
    /\ pc[1] = "read"
    /\ podUIDs[1] = [p \in {"p1"} |-> "u1"]
    /\ msgFromCC[1] = Cmd("applyCPUShares", << <<"p1", "256">> >>)
    /\ wire[1] = <<Failure>>
    /\ pc[2] = "read"
    /\ msgFromCC[2] = Cmd("applyCPUQuotas", << <<"p1", "256">> >>)
    /\ wire[2] = <<Success>>
    /\ StringAt(lbWeights) = Cmd("applyLBWeights", << <<"app1", "40.000000|60.000000">> >>)
    /\ hpc[1] = "idle"
    /\ body[1] = [kind |-> "weights", text |-> StringAt(lbWeights)]

SomeClosed == \E c \in Peers : pc[c] = "closed"

\* C33: the step in which a connection's read fails ends that connection's
\* handler and changes nothing else; an ended handler stays ended and
\* writes nothing more; with a connection ended, the accept loop can still
\* accept, an open connection can still read its next command and the HTTP
\* endpoint can still take a request, and the value an HTTP request loads
\* is the whole value stored last.
C33_ConnectionEndIsLocal ==
    [][ /\ \A c \in Peers :
              /\ (pc[c] = "read" /\ pc'[c] = "closed")
                    => /\ \A d \in Peers \ {c} : pc'[d] = pc[d]
                       /\ podUIDs' = podUIDs
                       /\ wire' = wire
                       /\ cgroupWrites' = cgroupWrites
                       /\ <<lbWeights, mu, hpc, currLBWeights, body>>'
                             = <<lbWeights, mu, hpc, currLBWeights, body>>
              /\ pc[c] = "closed"
                    => /\ pc'[c] = "closed"
                       /\ wire'[c] = wire[c]
                       /\ cgroupWrites'[c] = cgroupWrites[c]
        /\ SomeClosed
              => /\ \A d \in Peers :
                       /\ pc[d] = "listen" => ENABLED Accept(d)
                       /\ pc[d] = "read" => ENABLED ReadMsg(d, PeerMsgs(d))
                 /\ \A h \in Readers :
                       /\ hpc[h] = "idle" => ENABLED HttpRequest(h)
                       /\ (hpc[h] = "load" /\ hpc'[h] # hpc[h])
                             => /\ currLBWeights'[h] = lbWeights.data
                                /\ currLBWeights'[h] # Torn
      ]_vars

\* connection 1 stored weights and ended; connection 2 is serving a command
\* and an HTTP request has returned what connection 1 stored
C33_Witness ==
    /\ pc[1] = "closed"
    /\ msgFromCC[1] = Cmd("applyLBWeights", << <<"app1", "100.000000">> >>)
    /\ lastAck = msgFromCC[1]
    /\ pc[2] = "handle"
    /\ hpc[1] = "idle"
    /\ startAck[1] = lastAck
    /\ body[1] = [kind |-> "weights", text |-> storedWeights(msgFromCC[1])]

\* the critical sections of the LB-weights mutex
InStore(c) == pc[c] \in {"storeData", "storeLen", "unlock"}
InLoad(h) == hpc[h] \in {"load", "unlock"}

\* C35: a handler that sleeps in getCPUUtilizations still holds that
\* command, has written no reply and cannot read another command; the
\* mutex is held only between Lock and Unlock around the one assignment or
\* read, so never by a handler that sleeps, runs a shell command, reads or
\* writes its connection; and while a handler sleeps, another connection
\* can read its next command and the HTTP endpoint can take a request and,
\* unless a store is in its critical section, the lock.
C35_SamplingOccupiesOnlyItsConnection ==
    /\ \A c \in Peers :
          /\ mu = ConnTask(c) => InStore(c)
          /\ pc[c] = "sleep"
                => /\ msgFromCC[c] = Cmd("getCPUUtilizations", <<>>)
                   /\ wire[c] = <<>>
                   /\ ~ ENABLED ReadMsg(c, PeerMsgs(c))
                   /\ \A d \in Peers \ {c} :
                         pc[d] = "read" => ENABLED ReadMsg(d, PeerMsgs(d))
                   /\ \A h \in Readers :
                         /\ hpc[h] = "idle" => ENABLED HttpRequest(h)
                         /\ (hpc[h] = "lock" /\ \A d \in Peers : ~InStore(d))
                               => ENABLED HttpLock(h)
    /\ \A h \in Readers : mu = HttpTask(h) => InLoad(h)

\* connection 1 sleeps in getCPUUtilizations after it stored weights, while
\* connection 2 is inside its store and an HTTP request waits for the lock
C35_Witness ==
    /\ pc[1] = "sleep"
    /\ lastAck = Cmd("applyLBWeights", << <<"app1", "100.000000">> >>)
    /\ pc[2] = "storeData"
    /\ mu = ConnTask(2)
    /\ hpc[1] = "lock"

=============================================================================
